---- MODULE Spec2Model ----
(***************************************************************************)
(* The ingestion pipeline of the Moltbook 3D topic map: the POST handler   *)
(* of the ingest route, fetchWithRetry, fetchAllPosts and ingestDataFast   *)
(* (src/src/components/TopicCluster.tsx, lines 252-666).                   *)
(*                                                                         *)
(* Every await of the pipeline is one step.  A call to an external         *)
(* collaborator (the source API, the embedding and labeling provider, the  *)
(* database) either returns or throws; a database write that throws has    *)
(* written nothing.                                                        *)
(*                                                                         *)
(* The numeric constants of the route are scaled down so that several      *)
(* pages and several batches fit in the explored state space:              *)
(*   BATCH_SIZE 100 -> 2, MOLTBOOK_PAGE_SIZE 100 -> 2, MAX_OFFSET 800 -> 2 *)
(*   and the cluster-count literals 20 / 5 / 50 -> 2 / 2 / 3.              *)
(* MAX_RETRIES keeps its value.                                            *)
(*                                                                         *)
(* The functions of src/src/lib/clustering.ts are modelled step by step in *)
(* a machine of their own (variable km, specification SpecKM), over        *)
(* vectors of small integers and in exact arithmetic.                      *)
(*                                                                         *)
(* The page component Home (variable home, specification SpecHome) and the *)
(* component SearchOverlay (variable search, specification SpecSearch) are *)
(* modelled with their requests in flight: a response is one step, and the *)
(* responses arrive in any order.                                          *)
(***************************************************************************)
EXTENDS Integers, Sequences, FiniteSets, TLC

\* ---------------------------------------------------------------- constants
BATCH_SIZE == 2
MOLTBOOK_PAGE_SIZE == 2
MAX_OFFSET == 2
MAX_RETRIES == 3
\* Math.min(Math.max(Math.ceil(n / 20), 5), 50), scaled
POSTS_PER_CLUSTER == 2
MIN_CLUSTERS == 2
MAX_CLUSTERS == 3

\* -------------------------------------------------------------------- bounds
\* Largest number of embeddings the cluster count is computed for.
MaxCount == 8

\* Largest `limit` a POST body carries.
MaxLimit == 4
\* Number of distinct record identifiers the source can serve.
MaxId == 3
\* Number of calls made by ingestDataFast that the environment lets throw.
MaxFaults == 2

\* Most vectors in an input of kMeansClustering and embedTo3D.
MaxN == 2
\* Largest k and largest maxIterations passed to kMeansClustering.
MaxK == 3
MaxIter == 2
\* Largest dimension of a vector passed to cosineSimilarity directly.
MaxDim == 3

\* Longest page the source returns: it may ignore the requested limit.
MaxPageLen == MOLTBOOK_PAGE_SIZE + 1

JobIds == {1, 2}
Ids == 1..MaxId
Limits == 0..MaxLimit

VARIABLES
    requests,   \* POST requests the client has still to send
    responses,  \* what POST has answered so far, in the order of the requests
    jobs,       \* table ingestion_jobs: sequence of rows, the row index is the id
    run,        \* run[j]: the activation of ingestDataFast for job j
    posts,      \* table posts: sequence of rows, the row index is the id
    topics,     \* table topics: sequence of rows
    links,      \* table post_topics: sequence of rows
    faultsLeft, \* calls of ingestDataFast that may still throw
    hist,       \* hist[j]: what has happened to job j so far (observation only)
    maxPage,    \* the most records the source puts in one page
    km,         \* the activation of a direct call into lib/clustering.ts
    home,       \* the state of the page component Home and its requests in flight
    search      \* the state of the component SearchOverlay and its searches in flight

vars == <<requests, responses, jobs, run, posts, topics, links, faultsLeft, hist, maxPage, km, home, search>>

\* ------------------------------------------------------------------ helpers
Min(a, b) == IF a < b THEN a ELSE b
Max(a, b) == IF a > b THEN a ELSE b

SeqMax(s) == IF s = <<>> THEN 0
             ELSE CHOOSE m \in {s[k] : k \in 1..Len(s)} :
                      \A k \in 1..Len(s) : s[k] <= m

\* posts.filter(pred) on a sequence
RECURSIVE Filter(_, _)
Filter(s, keep) ==
    IF s = <<>> THEN <<>>
    ELSE IF Head(s) \in keep THEN <<Head(s)>> \o Filter(Tail(s), keep)
         ELSE Filter(Tail(s), keep)

\* posts.slice(a, b) with 0-based, end-exclusive indices
Slice(s, a, b) == SubSeq(s, a + 1, Min(b, Len(s)))

Range(s) == {s[k] : k \in 1..Len(s)}

\* Pages the source can answer with.  Identifiers are opaque, so a page is
\* taken up to renaming: an identifier not served before is the next unused
\* number.
Pages == UNION {[1..n -> Ids] : n \in 0..MaxPageLen}

PageFrom(p, served) ==
    \A k \in 1..Len(p) :
        p[k] <= Max(served, SeqMax(SubSeq(p, 1, k - 1))) + 1

\* ------------------------------------------------------------------- state
NoFrame ==
    [ pc |-> "idle", limit |-> 0,
      \* fetchAllPosts / fetchWithRetry; pageRequests counts the pages asked
      \* for and pageOf[k] is the page allPosts[k] came from
      allPosts |-> <<>>, offset |-> 0, attempt |-> 0, pageRequests |-> 0,
      pageOf |-> <<>>,
      \* the limit and offset parameters of the url of the page asked for, and
      \* what the last attempt of fetchWithRetry got: "ok", "5xx", "4xx" or
      \* "thrown" (a request error, or a 200 body with success: false)
      url |-> [limit |-> 0, offset |-> 0], response |-> "",
      \* ingestDataFast
      fetched |-> <<>>, processed |-> 0, errors |-> 0, i |-> 0, j |-> 0,
      savedPost |-> 0,
      allEmbeddings |-> <<>>, allPostIds |-> <<>>,
      clusters |-> <<>>, groups |-> <<>>, p |-> 0, t |-> 0, topicId |-> 0,
      label |-> [name |-> "", description |-> ""],
      error |-> "" ]

\* hist[j] is the set of the kinds of exception job j has met so far:
\* "page" (a page request that failed for good), "label" (a malformed answer
\* of the labeling provider, which is no exception for the run),
\* "record" (upsert or embedding store of one record), "embed" (the embedding
\* call of a batch), "progress" (the progress update of a batch), "fatal" (a
\* call outside these handlers), "final" (the write of the failed status).
NoHist == {}

\* The bodies a client may POST: without moltbookApiUrl, or with it and a
\* limit.
Bodies ==
    {[moltbookApiUrl |-> FALSE, limit |-> 0]}
        \cup {[moltbookApiUrl |-> TRUE, limit |-> l] : l \in Limits}

\* The table and the frames before any request.
\* Largest number of requests the page, and of searches the overlay, starts.
MaxRequests == 4

TopicIds == {1, 2}

\* The texts typed into the search box; "" is the empty box.
Queries == {"a", "b"}

\* Home before it is mounted.  selectedTopicId 0 is null; graphData is the
\* empty graph ("none"), the topics-only graph ("topics") or the graph of one
\* topic and its posts ("topic"); pending holds the requests in flight;
\* issued counts them; applied is the last response that was handled.
NoHome ==
    [ mounted |-> FALSE, loaded |-> FALSE, selectedTopicId |-> 0,
      graphData |-> [mode |-> "none", topic |-> 0],
      pending |-> {}, issued |-> 0,
      applied |-> [id |-> 0, kind |-> "", rebuilt |-> FALSE] ]

\* SearchOverlay before it is mounted.  results is "" for the empty list and
\* otherwise the query the results shown were found for; timer is the query
\* of the pending debounce timer, "" when there is none.
NoSearch ==
    [ mounted |-> FALSE, query |-> "", results |-> "", timer |-> "",
      isSearching |-> FALSE, pending |-> {}, issued |-> 0 ]

\* No component of the user interface is mounted.
Closed == home = NoHome /\ search = NoSearch

Empty ==
    /\ responses = <<>>
    /\ jobs = <<>>
    /\ run = [j \in JobIds |-> NoFrame]
    /\ posts = <<>>
    /\ topics = <<>>
    /\ links = <<>>
    /\ hist = [j \in JobIds |-> NoHist]

\* No direct call into lib/clustering.ts is made.
NoCall ==
    [ pc |-> "idle", embeddings |-> <<>>, k |-> 0, maxIterations |-> 0,
      \* kMeansClustering; passes counts the assignment passes, result is
      \* the value returned
      centroids |-> <<>>, usedIndices |-> {}, idx |-> 0, clusters |-> <<>>,
      iter |-> 0, passes |-> 0, result |-> [clusters |-> <<>>, centroids |-> <<>>],
      \* the projection and the value returned by embedTo3D(embeddings) and
      \* by embedTo3D(centroids)
      projection |-> <<>>, positions |-> <<>>,
      centroidProjection |-> <<>>, centroidPositions |-> <<>>,
      \* direct calls of cosineSimilarity: the vectors a and b, and the values
      \* of cosineSimilarity(a, b), (b, a) and (a, a)
      a |-> <<>>, b |-> <<>>, ab |-> <<>>, ba |-> <<>>, aa |-> <<>> ]

\* One request is sent to an empty database; the source may put one record
\* more in a page than the page size.
Init ==
    /\ requests \in {<<b>> : b \in Bodies}
    /\ Empty
    /\ Closed
    /\ faultsLeft = MaxFaults
    /\ maxPage = MaxPageLen
    /\ km = NoCall

\* -------------------------------------------------------------------- POST
\* { error: "moltbookApiUrl is required" }, { status: 400 }
Rejection == [status |-> 400, jobId |-> 0]

\* { message: "Ingestion started", jobId: job.id }
IngestionStarted(id) == [status |-> 200, jobId |-> id]

\* Mutant of PostRejected: the job row is created before the body is looked at.
PostRejectedAfterCreate ==
    /\ requests # <<>>
    /\ ~Head(requests).moltbookApiUrl
    /\ Len(jobs) < Cardinality(JobIds)
    /\ jobs' = Append(jobs, [status |-> "running", totalItems |-> Head(requests).limit,
                             processed |-> 0, errors |-> 0, errorLog |-> ""])
    /\ requests' = Tail(requests)
    /\ responses' = Append(responses, Rejection)
    /\ UNCHANGED <<home, search, maxPage, km, run, posts, topics, links, faultsLeft, hist>>

\* POST with a body that lacks moltbookApiUrl: 400, nothing is touched.
PostRejected ==
    /\ requests # <<>>
    /\ ~Head(requests).moltbookApiUrl
    /\ requests' = Tail(requests)
    /\ responses' = Append(responses, Rejection)
    /\ UNCHANGED <<home, search, maxPage, km, jobs, run, posts, topics, links, faultsLeft, hist>>

\* POST: the job row is created as running with the requested total, and
\* ingestDataFast is started without being awaited.
Post ==
    /\ requests # <<>>
    /\ Head(requests).moltbookApiUrl
    /\ Len(jobs) < Cardinality(JobIds)
    /\ LET limit == Head(requests).limit
           id == Len(jobs) + 1 IN
        /\ jobs' = Append(jobs, [status |-> "running", totalItems |-> limit,
                                 processed |-> 0, errors |-> 0, errorLog |-> ""])
        /\ run' = [run EXCEPT ![id] = [NoFrame EXCEPT !.pc = "loop", !.limit = limit]]
    /\ requests' = Tail(requests)
    /\ responses' = Append(responses, IngestionStarted(Len(jobs) + 1))
    /\ UNCHANGED <<home, search, maxPage, km, posts, topics, links, faultsLeft, hist>>

\* ----------------------------------------------------------- fetchAllPosts
effectiveLimit(f) == Min(f.limit, MAX_OFFSET + MOLTBOOK_PAGE_SIZE)

\* Mutant of fetchLimit: the page size does not cap the limit asked for.
fetchLimitRemaining(f) == effectiveLimit(f) - Len(f.allPosts)

fetchLimit(f) == Min(MOLTBOOK_PAGE_SIZE, effectiveLimit(f) - Len(f.allPosts))

\* `${baseUrl}?sort=new&limit=${fetchLimit}&offset=${offset}`
RequestUrl(f) == [limit |-> fetchLimit(f), offset |-> f.offset]

\* return allPosts: ingestDataFast goes on with the records collected.
Returned(f) ==
    [f EXCEPT !.pc = "total", !.fetched = f.allPosts,
              !.allPosts = <<>>, !.offset = 0, !.attempt = 0, !.pageRequests = 0,
              !.pageOf = <<>>, !.url = [limit |-> 0, offset |-> 0]]

\* The while condition: another page is requested, or the call returns.
FetchLoop(j) ==
    /\ run[j].pc = "loop"
    /\ IF Len(run[j].allPosts) < effectiveLimit(run[j]) /\ run[j].offset <= MAX_OFFSET
       THEN run' = [run EXCEPT ![j] = [@ EXCEPT !.pc = "request", !.attempt = 1,
                                                !.pageRequests = @ + 1,
                                                !.url = RequestUrl(run[j])]]
       ELSE run' = [run EXCEPT ![j] = Returned(@)]
    /\ UNCHANGED <<home, search, responses, maxPage, km, requests, jobs, posts, topics, links, faultsLeft, hist>>

\* Mutant of NewPosts: the filter against the collected identifiers is lost.
NewPostsUnfiltered(f, page) == page

\* Filter duplicates by ID: the records of the page not collected before.
NewPosts(f, page) == Filter(page, Ids \ Range(f.allPosts))

\* Mutant of AcceptPage: a page of already-collected identifiers does not end
\* the loop.
AcceptPageOfDuplicates(f, page) ==
    IF page = <<>>
    THEN Returned(f)
    ELSE [f EXCEPT !.allPosts = f.allPosts \o NewPosts(f, page),
                   !.pageOf = f.pageOf \o [k \in 1..Len(NewPosts(f, page)) |-> f.pageRequests],
                   !.offset = f.offset + Len(page),
                   !.pc = "delay"]

\* Mutant of AcceptPage: the next page is asked for without the delay.
AcceptPageWithoutDelay(f, page) ==
    IF page = <<>> \/ NewPosts(f, page) = <<>>
    THEN Returned(f)
    ELSE [f EXCEPT !.allPosts = f.allPosts \o NewPosts(f, page),
                   !.pageOf = f.pageOf \o [k \in 1..Len(NewPosts(f, page)) |-> f.pageRequests],
                   !.offset = f.offset + Len(page),
                   !.pc = "loop"]

\* The body of the loop once fetchWithRetry has returned an OK response.
AcceptPage(f, page) ==
    IF page = <<>> \/ NewPosts(f, page) = <<>>
    THEN Returned(f)
    ELSE [f EXCEPT !.allPosts = f.allPosts \o NewPosts(f, page),
                   !.pageOf = f.pageOf \o [k \in 1..Len(NewPosts(f, page)) |-> f.pageRequests],
                   !.offset = f.offset + Len(page),
                   !.pc = "delay"]

\* Mutant of StopPagination: the failure of the page escapes fetchAllPosts and
\* reaches the catch of ingestDataFast.
StopPaginationRaises(f) == [f EXCEPT !.pc = "catch", !.error = "fetch"]

\* The break taken on a non-OK response and in the catch of the loop.
StopPagination(f) == Returned(f)

\* The highest identifier the source has served to any run.
Served ==
    SeqMax([k \in JobIds |-> Max(SeqMax(run[k].allPosts), SeqMax(run[k].fetched))])

\* What the attempt of fetchWithRetry got.
Got(f, response) == [f EXCEPT !.response = response]

\* fetchWithRetry: the attempt gets an OK response whose body is a page.
RequestOk(j) ==
    /\ run[j].pc = "request"
    /\ \E page \in Pages :
        /\ Len(page) <= maxPage
        /\ PageFrom(page, Served)
        /\ run' = [run EXCEPT ![j] = AcceptPage(Got(@, "ok"), page)]
    /\ UNCHANGED <<home, search, responses, maxPage, km, requests, jobs, posts, topics, links, faultsLeft, hist>>

\* What fetchWithRetry does with an attempt that threw (network error, or an
\* OK response whose body says success: false): retry, or rethrow.
RetryOrThrow(f) ==
    IF f.attempt < MAX_RETRIES
    THEN [f EXCEPT !.pc = "backoff"]
    ELSE StopPagination(f)

\* Mutant of RetryOrReturn: a 5xx response is returned without a retry.
ReturnServerError(f) == StopPagination(f)

\* What fetchWithRetry does with a 5xx response: retry, or return it.
RetryOrReturn(f) ==
    IF f.attempt < MAX_RETRIES
    THEN [f EXCEPT !.pc = "backoff"]
    ELSE StopPagination(f)

\* The page request has failed for good when no attempt is left.
PageFailed(j, last) ==
    hist' = [hist EXCEPT ![j] = IF last THEN @ \cup {"page"} ELSE @]

RequestThrows(j) ==
    /\ run[j].pc = "request"
    /\ run' = [run EXCEPT ![j] = RetryOrThrow(Got(@, "thrown"))]
    /\ PageFailed(j, run[j].attempt >= MAX_RETRIES)
    /\ UNCHANGED <<home, search, responses, maxPage, km, requests, jobs, posts, topics, links, faultsLeft>>

RequestServerError(j) ==
    /\ run[j].pc = "request"
    /\ run' = [run EXCEPT ![j] = RetryOrReturn(Got(@, "5xx"))]
    /\ PageFailed(j, run[j].attempt >= MAX_RETRIES)
    /\ UNCHANGED <<home, search, responses, maxPage, km, requests, jobs, posts, topics, links, faultsLeft>>

\* Mutant of RequestClientError: the response is retried like a 5xx one.
RequestClientErrorRetried(j) ==
    /\ run[j].pc = "request"
    /\ run' = [run EXCEPT ![j] = RetryOrReturn(Got(@, "4xx"))]
    /\ PageFailed(j, run[j].attempt >= MAX_RETRIES)
    /\ UNCHANGED <<home, search, responses, maxPage, km, requests, jobs, posts, topics, links, faultsLeft>>

\* A non-OK response below 500 is returned at once.
RequestClientError(j) ==
    /\ run[j].pc = "request"
    /\ run' = [run EXCEPT ![j] = StopPagination(Got(@, "4xx"))]
    /\ PageFailed(j, TRUE)
    /\ UNCHANGED <<home, search, responses, maxPage, km, requests, jobs, posts, topics, links, faultsLeft>>

\* The linear backoff before the next attempt.
Backoff(j) ==
    /\ run[j].pc = "backoff"
    /\ run' = [run EXCEPT ![j] = [@ EXCEPT !.pc = "request", !.attempt = @ + 1]]
    /\ UNCHANGED <<home, search, responses, maxPage, km, requests, jobs, posts, topics, links, faultsLeft, hist>>

\* The REQUEST_DELAY after an accepted page.
Delay(j) ==
    /\ run[j].pc = "delay"
    /\ run' = [run EXCEPT ![j] = [@ EXCEPT !.pc = "loop"]]
    /\ UNCHANGED <<home, search, responses, maxPage, km, requests, jobs, posts, topics, links, faultsLeft, hist>>

Fetch(j) ==
    \/ FetchLoop(j)
    \/ RequestOk(j)
    \/ RequestThrows(j)
    \/ RequestServerError(j)
    \/ RequestClientError(j)
    \/ Backoff(j)
    \/ Delay(j)

\* ---------------------------------------------------------- ingestDataFast
\* A call of ingestDataFast throws: the environment allows MaxFaults of them.
Throws(j, kind) ==
    /\ faultsLeft > 0
    /\ faultsLeft' = faultsLeft - 1
    /\ hist' = [hist EXCEPT ![j] = @ \cup {kind}]

\* An exception outside the per-record and per-batch handlers reaches the
\* catch of ingestDataFast.
Catch(f, err) == [f EXCEPT !.pc = "catch", !.error = err]

\* prisma.ingestionJob.update({ totalItems: posts.length })
UpdateTotalSkipped(j) ==
    /\ run[j].pc = "total"
    /\ run' = [run EXCEPT ![j] = [@ EXCEPT !.pc = "batch", !.i = 0]]
    /\ UNCHANGED <<home, search, responses, maxPage, km, requests, jobs, posts, topics, links, faultsLeft, hist>>

UpdateTotal(j) ==
    /\ run[j].pc = "total"
    /\ jobs' = [jobs EXCEPT ![j].totalItems = Len(run[j].fetched)]
    /\ run' = [run EXCEPT ![j] = [@ EXCEPT !.pc = "batch", !.i = 0]]
    /\ UNCHANGED <<home, search, responses, maxPage, km, requests, posts, topics, links, faultsLeft, hist>>

UpdateTotalThrows(j) ==
    /\ run[j].pc = "total"
    /\ Throws(j, "fatal")
    /\ run' = [run EXCEPT ![j] = Catch(@, "total")]
    /\ UNCHANGED <<home, search, responses, maxPage, km, requests, jobs, posts, topics, links>>

\* posts.slice(i, i + BATCH_SIZE)
batch(f) == Slice(f.fetched, f.i, f.i + BATCH_SIZE)

\* The head of the batch loop, and what follows the loop: clustering when an
\* embedding was collected, the completed status otherwise.
BatchLoop(j) ==
    /\ run[j].pc = "batch"
    /\ run' = [run EXCEPT ![j] =
                 IF @.i < Len(@.fetched) THEN [@ EXCEPT !.pc = "embed"]
                 ELSE IF Len(@.allEmbeddings) > 0 THEN [@ EXCEPT !.pc = "kmeans"]
                 ELSE [@ EXCEPT !.pc = "complete"]]
    /\ UNCHANGED <<home, search, responses, maxPage, km, requests, jobs, posts, topics, links, faultsLeft, hist>>

\* Mutant of BatchFailed: the exception of the batch is not caught at batch
\* level and aborts the run.
BatchFailedAbortsRun(f) == Catch(f, "batch")

\* The catch of a batch, then i += BATCH_SIZE.
BatchFailed(f) ==
    [f EXCEPT !.errors = @ + Len(batch(f)), !.i = @ + BATCH_SIZE, !.pc = "batch"]

\* generateEmbeddings(texts) returns one embedding per record of the batch.
Embed(j) ==
    /\ run[j].pc = "embed"
    /\ run' = [run EXCEPT ![j] = [@ EXCEPT !.pc = "upsert", !.j = 0]]
    /\ UNCHANGED <<home, search, responses, maxPage, km, requests, jobs, posts, topics, links, faultsLeft, hist>>

EmbedThrows(j) ==
    /\ run[j].pc = "embed"
    /\ Throws(j, "embed")
    /\ run' = [run EXCEPT ![j] = BatchFailed(@)]
    /\ UNCHANGED <<home, search, responses, maxPage, km, requests, jobs, posts, topics, links>>

\* The record the inner loop is at.
post(f) == batch(f)[f.j + 1]

\* j++ of the inner loop; after the last record comes the progress update.
NextRecord(f) ==
    [f EXCEPT !.j = @ + 1,
              !.pc = IF f.j + 1 < Len(batch(f)) THEN "upsert" ELSE "progress"]

\* Mutant of RecordFailed: the exception of the record is caught by the
\* handler of the batch, which gives up the rest of the batch.
RecordFailedAbortsBatch(f) == BatchFailed(f)

\* The catch of a record: errors++.
RecordFailed(f) == NextRecord([f EXCEPT !.errors = @ + 1])

\* allEmbeddings.push(embeddings[j]), allPostIds.push(savedPost.id),
\* processed++.  The embedding of a record stands for its text, which the
\* identifier of the record determines.
RecordSaved(f) ==
    NextRecord([f EXCEPT !.allEmbeddings = Append(@, post(f)),
                         !.allPostIds = Append(@, f.savedPost),
                         !.processed = @ + 1])

\* The ids of the Post rows with this external identifier.
Existing(table, externalId) ==
    {id \in 1..Len(table) : table[id].externalId = externalId}

\* Mutant of Upserted: the record is inserted without looking for its
\* external identifier.
UpsertedAsCreate(table, externalId, content) ==
    Append(table, [externalId |-> externalId, content |-> content,
                   embedded |-> FALSE, positioned |-> 0])

\* The Post table after upsert({ where: { externalId }, update, create }):
\* the row with the identifier gets the content served to this run, and a row
\* is created when there is none.
Upserted(table, externalId, content) ==
    IF Existing(table, externalId) # {}
    THEN [id \in 1..Len(table) |->
            IF table[id].externalId = externalId
            THEN [table[id] EXCEPT !.content = content] ELSE table[id]]
    ELSE Append(table, [externalId |-> externalId, content |-> content,
                        embedded |-> FALSE, positioned |-> 0])

\* The id of the row the upsert returns.
SavedPost(table, externalId) ==
    CHOOSE id \in 1..Len(table) :
        /\ table[id].externalId = externalId
        /\ \A other \in Existing(table, externalId) : id >= other

\* prisma.post.upsert by externalId; the content of a record is the one the
\* source served to this run.
Upsert(j) ==
    /\ run[j].pc = "upsert"
    /\ posts' = Upserted(posts, post(run[j]), j)
    /\ run' = [run EXCEPT ![j] = [@ EXCEPT !.pc = "store",
                                           !.savedPost = SavedPost(posts', post(run[j]))]]
    /\ UNCHANGED <<home, search, responses, maxPage, km, requests, jobs, topics, links, faultsLeft, hist>>

UpsertThrows(j) ==
    /\ run[j].pc = "upsert"
    /\ Throws(j, "record")
    /\ run' = [run EXCEPT ![j] = RecordFailed(@)]
    /\ UNCHANGED <<home, search, responses, maxPage, km, requests, jobs, posts, topics, links>>

\* UPDATE posts SET embedding = ... WHERE id = savedPost.id
Store(j) ==
    /\ run[j].pc = "store"
    /\ posts' = [posts EXCEPT ![run[j].savedPost].embedded = TRUE]
    /\ run' = [run EXCEPT ![j] = RecordSaved(@)]
    /\ UNCHANGED <<home, search, responses, maxPage, km, requests, jobs, topics, links, faultsLeft, hist>>

\* Mutant of StoreThrows: a record whose embedding was not stored is collected
\* all the same.
StoreThrowsCollected(j) ==
    /\ run[j].pc = "store"
    /\ Throws(j, "record")
    /\ run' = [run EXCEPT ![j] = RecordSaved(@)]
    /\ UNCHANGED <<home, search, responses, maxPage, km, requests, jobs, posts, topics, links>>

StoreThrows(j) ==
    /\ run[j].pc = "store"
    /\ Throws(j, "record")
    /\ run' = [run EXCEPT ![j] = RecordFailed(@)]
    /\ UNCHANGED <<home, search, responses, maxPage, km, requests, jobs, posts, topics, links>>

\* The row written by the progress update of a batch.
ProgressRow(row, f) == [row EXCEPT !.processed = f.processed, !.errors = f.errors]

\* The batch is done: i += BATCH_SIZE.
BatchDone(f) == [f EXCEPT !.i = @ + BATCH_SIZE, !.pc = "batch"]

\* prisma.ingestionJob.update({ processed, errors }) at the end of a batch
Progress(j) ==
    /\ run[j].pc = "progress"
    /\ jobs' = [jobs EXCEPT ![j] = ProgressRow(@, run[j])]
    /\ run' = [run EXCEPT ![j] = BatchDone(@)]
    /\ UNCHANGED <<home, search, responses, maxPage, km, requests, posts, topics, links, faultsLeft, hist>>

\* The progress update throws inside the try of the batch: the catch of the
\* batch runs although every record of the batch has been counted.
ProgressThrows(j) ==
    /\ run[j].pc = "progress"
    /\ Throws(j, "progress")
    /\ run' = [run EXCEPT ![j] = BatchFailed(@)]
    /\ UNCHANGED <<home, search, responses, maxPage, km, requests, jobs, posts, topics, links>>

Batches(j) ==
    \/ UpdateTotal(j)
    \/ UpdateTotalThrows(j)
    \/ BatchLoop(j)
    \/ Embed(j)
    \/ EmbedThrows(j)
    \/ Upsert(j)
    \/ UpsertThrows(j)
    \/ Store(j)
    \/ StoreThrows(j)
    \/ Progress(j)
    \/ ProgressThrows(j)

\* ------------------------------------------------- clustering and topics
\* Mutant of numClusters: the count is not clamped from above.
numClustersUnclamped(n) ==
    Max((n + POSTS_PER_CLUSTER - 1) \div POSTS_PER_CLUSTER, MIN_CLUSTERS)

\* Math.min(Math.max(Math.ceil(n / 20), 5), 50)
numClusters(n) ==
    Min(Max((n + POSTS_PER_CLUSTER - 1) \div POSTS_PER_CLUSTER, MIN_CLUSTERS),
        MAX_CLUSTERS)

\* The assignments kMeansClustering may return for n embeddings and k
\* requested clusters: every value is below min(k, n).  Three of them stand
\* for the rest: one cluster, one cluster that is not the first, and all
\* clusters in turn.
Assignments(n, k) ==
    LET kk == Min(k, n) IN
    { [x \in 1..n |-> 0], [x \in 1..n |-> kk - 1], [x \in 1..n |-> (x - 1) % kk] }

\* The keys of clusterPostsMap in insertion order.
RECURSIVE ClusterOrder(_)
ClusterOrder(cl) ==
    IF cl = <<>> THEN <<>>
    ELSE LET front == ClusterOrder(SubSeq(cl, 1, Len(cl) - 1)) IN
         IF cl[Len(cl)] \in Range(front) THEN front ELSE Append(front, cl[Len(cl)])

\* clusterPostsMap.get(c): the post ids of cluster c, in input order.
RECURSIVE Members(_, _, _)
Members(cl, ids, c) ==
    IF cl = <<>> THEN <<>>
    ELSE LET front == Members(SubSeq(cl, 1, Len(cl) - 1), SubSeq(ids, 1, Len(ids) - 1), c) IN
         IF cl[Len(cl)] = c THEN Append(front, ids[Len(ids)]) ELSE front

\* Mutant of ClusterPostsMap: an entry for every cluster up to the highest
\* one assigned, the empty ones too.
ClusterPostsMapOfAll(cl, ids) ==
    [k \in 1..(SeqMax(cl) + 1) |-> [cluster |-> k - 1, postIds |-> Members(cl, ids, k - 1)]]

\* clusterPostsMap as the sequence of its entries.
ClusterPostsMap(cl, ids) ==
    LET order == ClusterOrder(cl) IN
    [k \in 1..Len(order) |-> [cluster |-> order[k], postIds |-> Members(cl, ids, order[k])]]

\* kMeansClustering and embedTo3D, then the grouping by cluster.
KMeans(j) ==
    /\ run[j].pc = "kmeans"
    /\ LET n == Len(run[j].allEmbeddings) IN
       \E cl \in Assignments(n, numClusters(n)) :
          run' = [run EXCEPT ![j] =
                    [@ EXCEPT !.pc = "position", !.p = 0, !.clusters = cl,
                              !.groups = ClusterPostsMap(cl, run[j].allPostIds)]]
    /\ UNCHANGED <<home, search, responses, maxPage, km, requests, jobs, posts, topics, links, faultsLeft, hist>>

\* prisma.post.update of the position of allPostIds[p]
Position(j) ==
    /\ run[j].pc = "position"
    /\ posts' = [posts EXCEPT ![run[j].allPostIds[run[j].p + 1]].positioned = j]
    /\ run' = [run EXCEPT ![j] =
                 IF @.p + 1 < Len(@.allPostIds) THEN [@ EXCEPT !.p = @ + 1]
                 ELSE [@ EXCEPT !.p = @ + 1, !.pc = "sample", !.t = 1]]
    /\ UNCHANGED <<home, search, responses, maxPage, km, requests, jobs, topics, links, faultsLeft, hist>>

PositionThrows(j) ==
    /\ run[j].pc = "position"
    /\ Throws(j, "fatal")
    /\ run' = [run EXCEPT ![j] = Catch(@, "position")]
    /\ UNCHANGED <<home, search, responses, maxPage, km, requests, jobs, posts, topics, links>>

\* prisma.post.findMany of the sample posts of cluster t
Sample(j) ==
    /\ run[j].pc = "sample"
    /\ run' = [run EXCEPT ![j] = [@ EXCEPT !.pc = "label"]]
    /\ UNCHANGED <<home, search, responses, maxPage, km, requests, jobs, posts, topics, links, faultsLeft, hist>>

\* What the labeling provider may answer with: a JSON object with a name and
\* a description, or a malformed answer, which is text that is not JSON or a
\* JSON object in which the name is missing ("").
WellFormed == [parseable |-> TRUE, name |-> "Topic", description |-> "About"]

Malformed ==
    { [parseable |-> FALSE, name |-> "", description |-> ""],
      [parseable |-> TRUE, name |-> "", description |-> ""],
      [parseable |-> TRUE, name |-> "", description |-> "About"] }

\* Mutant of generateClusterLabel: the name of the answer is taken as it is.
generateClusterLabelAsGiven(content) ==
    [name |-> content.name, description |-> content.description]

\* generateClusterLabel once the provider has answered: JSON.parse in a try,
\* result.name || "Uncategorized", result.description || "".
generateClusterLabel(content) ==
    IF content.parseable
    THEN [name |-> IF content.name = "" THEN "Uncategorized" ELSE content.name,
          description |-> content.description]
    ELSE [name |-> "Uncategorized", description |-> ""]

\* const { name, description } = await generateClusterLabel(...)
Labelled(f, content) ==
    [f EXCEPT !.pc = "createTopic", !.label = generateClusterLabel(content)]

Label(j) ==
    /\ run[j].pc = "label"
    /\ run' = [run EXCEPT ![j] = Labelled(@, WellFormed)]
    /\ UNCHANGED <<home, search, responses, maxPage, km, requests, jobs, posts, topics, links, faultsLeft, hist>>

\* The provider answers with malformed content; the environment counts such
\* an answer among the MaxFaults calls that go wrong.
LabelMalformed(j) ==
    /\ run[j].pc = "label"
    /\ Throws(j, "label")
    /\ \E content \in Malformed : run' = [run EXCEPT ![j] = Labelled(@, content)]
    /\ UNCHANGED <<home, search, responses, maxPage, km, requests, jobs, posts, topics, links>>

\* prisma.topic.create
CreateTopic(j) ==
    /\ run[j].pc = "createTopic"
    /\ LET g == run[j].groups[run[j].t] IN
       topics' = Append(topics, [job |-> j, cluster |-> g.cluster,
                                 name |-> run[j].label.name,
                                 description |-> run[j].label.description,
                                 postCount |-> Len(g.postIds), centroid |-> FALSE])
    /\ run' = [run EXCEPT ![j] = [@ EXCEPT !.pc = "centroid", !.topicId = Len(topics) + 1,
                                           !.label = NoFrame.label]]
    /\ UNCHANGED <<home, search, responses, maxPage, km, requests, jobs, posts, links, faultsLeft, hist>>

\* Mutant of CentroidStored: the UPDATE has no WHERE clause.
CentroidStoredEverywhere(table, id) ==
    [t \in 1..Len(table) |-> [table[t] EXCEPT !.centroid = TRUE]]

\* The Topic table after the UPDATE of the centroid of topic id.
CentroidStored(table, id) == [table EXCEPT ![id].centroid = TRUE]

\* UPDATE topics SET centroid_embedding = ... WHERE id = topic.id
Centroid(j) ==
    /\ run[j].pc = "centroid"
    /\ topics' = CentroidStored(topics, run[j].topicId)
    /\ run' = [run EXCEPT ![j] = [@ EXCEPT !.pc = "link"]]
    /\ UNCHANGED <<home, search, responses, maxPage, km, requests, jobs, posts, links, faultsLeft, hist>>

\* prisma.postTopic.createMany, then the next cluster or the end of the loop
Link(j) ==
    /\ run[j].pc = "link"
    /\ LET ids == run[j].groups[run[j].t].postIds IN
       links' = links \o [k \in 1..Len(ids) |->
                            [postId |-> ids[k], topicId |-> run[j].topicId, relevance |-> 1]]
    /\ run' = [run EXCEPT ![j] =
                 IF @.t < Len(@.groups) THEN [@ EXCEPT !.t = @ + 1, !.pc = "sample"]
                 ELSE [@ EXCEPT !.pc = "complete"]]
    /\ UNCHANGED <<home, search, responses, maxPage, km, requests, jobs, posts, topics, faultsLeft, hist>>

\* Any of the five calls made for a cluster throws.
TopicThrows(j) ==
    /\ run[j].pc \in {"sample", "label", "createTopic", "centroid", "link"}
    /\ Throws(j, "fatal")
    /\ run' = [run EXCEPT ![j] = Catch(@, @.pc)]
    /\ UNCHANGED <<home, search, responses, maxPage, km, requests, jobs, posts, topics, links>>

\* ------------------------------------------------------- terminal status
\* The row written by "4. Mark complete".
CompletedRow(row, f) ==
    [row EXCEPT !.status = "completed", !.processed = f.processed, !.errors = f.errors]

\* The row written by the catch of ingestDataFast.
\* Mutant of FailedRow: the failed job is written with its counters at zero.
FailedRowReset(row, f) ==
    [row EXCEPT !.status = "failed", !.processed = 0, !.errors = 0, !.errorLog = f.error]

FailedRow(row, f) ==
    [row EXCEPT !.status = "failed", !.processed = f.processed, !.errors = f.errors,
                !.errorLog = f.error]

\* Mutant of Finished: a statement that follows the completed write inside
\* the try throws, so that the catch runs after the job was completed.
FinishedIntoCatch(f) ==
    IF f.pc = "complete" THEN Catch(f, "log") ELSE [f EXCEPT !.pc = "done"]

\* ingestDataFast returns.
Finished(f) == [f EXCEPT !.pc = "done"]

Complete(j) ==
    /\ run[j].pc = "complete"
    /\ jobs' = [jobs EXCEPT ![j] = CompletedRow(@, run[j])]
    /\ run' = [run EXCEPT ![j] = Finished(@)]
    /\ UNCHANGED <<home, search, responses, maxPage, km, requests, posts, topics, links, faultsLeft, hist>>

CompleteThrows(j) ==
    /\ run[j].pc = "complete"
    /\ Throws(j, "fatal")
    /\ run' = [run EXCEPT ![j] = Catch(@, "complete")]
    /\ UNCHANGED <<home, search, responses, maxPage, km, requests, jobs, posts, topics, links>>

Failed(j) ==
    /\ run[j].pc = "catch"
    /\ jobs' = [jobs EXCEPT ![j] = FailedRow(@, run[j])]
    /\ run' = [run EXCEPT ![j] = Finished(@)]
    /\ UNCHANGED <<home, search, responses, maxPage, km, requests, posts, topics, links, faultsLeft, hist>>

\* The update in the catch throws: the promise of ingestDataFast rejects and
\* POST's .catch(console.error) logs it.
FailedThrows(j) ==
    /\ run[j].pc = "catch"
    /\ Throws(j, "final")
    /\ run' = [run EXCEPT ![j] = [@ EXCEPT !.pc = "rejected"]]
    /\ UNCHANGED <<home, search, responses, maxPage, km, requests, jobs, posts, topics, links>>

Topics(j) ==
    \/ KMeans(j)
    \/ Position(j)
    \/ PositionThrows(j)
    \/ Sample(j)
    \/ Label(j)
    \/ LabelMalformed(j)
    \/ CreateTopic(j)
    \/ Centroid(j)
    \/ Link(j)
    \/ TopicThrows(j)

Terminal(j) ==
    \/ Complete(j)
    \/ CompleteThrows(j)
    \/ Failed(j)
    \/ FailedThrows(j)

Next ==
    \/ PostRejected
    \/ Post
    \/ \E j \in JobIds : Fetch(j)
    \/ \E j \in JobIds : Batches(j)
    \/ \E j \in JobIds : Topics(j)
    \/ \E j \in JobIds : Terminal(j)

Spec == Init /\ [][Next]_vars

\* The event loop resumes every pipeline whose awaited call has settled.
LiveSpec == Spec /\ \A j \in JobIds : WF_vars(Fetch(j) \/ Batches(j) \/ Topics(j) \/ Terminal(j))

\* ====================================================== lib/clustering.ts
\* The variables of the pipeline, which a call into the library leaves alone.
pipeline ==
    <<requests, responses, jobs, run, posts, topics, links, faultsLeft, hist, maxPage,
      home, search>>

\* Inputs: lists of at most MaxN vectors of one dimension.
Components == {-1, 0, 1}
Dims == {0, 1, 2}
EmbeddingsOf(dims) ==
    UNION {[1..n -> [1..d -> Components]] : n \in 0..MaxN, d \in dims}

Embeddings == EmbeddingsOf(Dims)

\* a.reduce((sum, val, i) => sum + val * b[i], 0)
RECURSIVE Dot(_, _)
Dot(a, b) ==
    IF a = <<>> THEN 0
    ELSE a[Len(a)] * b[Len(a)] + Dot(SubSeq(a, 1, Len(a) - 1), b)

\* cosineSimilarity(a, b) is dot / (Math.sqrt(normA) * Math.sqrt(normB)); it
\* is NaN (0 / 0) when a norm is 0, which is when a or b has no non-zero
\* component.  The 0 returned for two lengths is 0 / (1 * 1).
cosineSimilarity(a, b) ==
    IF Len(a) # Len(b) THEN [dot |-> 0, normA |-> 1, normB |-> 1]
    ELSE [dot |-> Dot(a, b), normA |-> Dot(a, a), normB |-> Dot(b, b)]

IsNaN(sim) == sim.normA * sim.normB = 0

\* Math.sqrt(normA) * Math.sqrt(normB) in double arithmetic against the real
\* root of normA * normB, where that root is an integer: 1 when the product
\* is above it (sqrt(2) * sqrt(2) is 2.0000000000000004), -1 when it is below
\* (sqrt(3) * sqrt(3) is 2.9999999999999996), 0 when it is exact (both norms
\* are squares).  For norms up to 4.
Rounding(sim) ==
    IF sim.normA = 2 /\ sim.normB = 2 THEN 1
    ELSE IF sim.normA = 3 /\ sim.normB = 3 THEN -1
    ELSE 0

\* x < y for two similarities that are numbers, in exact arithmetic.
SimLess(x, y) ==
    IF x.dot < 0 /\ y.dot >= 0 THEN TRUE
    ELSE IF x.dot >= 0 /\ y.dot < 0 THEN FALSE
    ELSE IF x.dot >= 0
         THEN x.dot * x.dot * y.normA * y.normB < y.dot * y.dot * x.normA * x.normB
    ELSE x.dot * x.dot * y.normA * y.normB > y.dot * y.dot * x.normA * x.normB

\* A centroid is the vector num / den; the cosine does not depend on den.
Centroid0(emb) == [num |-> emb, den |-> 1]

\* centroids.forEach((cent, i) => ...) from centroid i on (0-based), with
\* best = the minDist and nearest found so far; dist < minDist is false for
\* a NaN and true for the first number.
\* Mutant of NearestFrom: a centroid at the same distance replaces the choice.
RECURSIVE NearestFromOrEqual(_, _, _, _)
NearestFromOrEqual(emb, centroids, i, best) ==
    IF i >= Len(centroids) THEN best.nearest
    ELSE LET sim == cosineSimilarity(emb, centroids[i + 1].num)
             closer == /\ ~IsNaN(sim)
                       /\ (best.infinity \/ ~SimLess(sim, best.sim)) IN
         NearestFromOrEqual(emb, centroids, i + 1,
                            IF closer THEN [infinity |-> FALSE, sim |-> sim, nearest |-> i]
                            ELSE best)

RECURSIVE NearestFrom(_, _, _, _)
NearestFrom(emb, centroids, i, best) ==
    IF i >= Len(centroids) THEN best.nearest
    ELSE LET sim == cosineSimilarity(emb, centroids[i + 1].num)
             closer == /\ ~IsNaN(sim)
                       /\ (best.infinity \/ SimLess(best.sim, sim)) IN
         NearestFrom(emb, centroids, i + 1,
                     IF closer THEN [infinity |-> FALSE, sim |-> sim, nearest |-> i]
                     ELSE best)

\* Mutant of Nearest: the index of the nearest centroid is counted from 1.
NearestOneBased(emb, centroids) ==
    1 + NearestFrom(emb, centroids, 0,
                    [infinity |-> TRUE, sim |-> [dot |-> 0, normA |-> 1, normB |-> 1], nearest |-> 0])

\* let minDist = Infinity; let nearest = 0; ...; return nearest
Nearest(emb, centroids) ==
    NearestFrom(emb, centroids, 0,
                [infinity |-> TRUE, sim |-> [dot |-> 0, normA |-> 1, normB |-> 1], nearest |-> 0])

\* embeddings[0]?.length || 0
Dim(embeddings) == IF embeddings = <<>> THEN 0 ELSE Len(embeddings[1])

\* Mutant of EmptyInput: the test of the dimension is lost.
EmptyInputOnly(f) == Len(f.embeddings) = 0

\* n === 0 || dim === 0
EmptyInput(f) == Len(f.embeddings) = 0 \/ Dim(f.embeddings) = 0

\* The library is entered: kMeansClustering(embeddings, k, maxIterations).
KMeansEntry ==
    /\ km.pc = "call"
    /\ km' = IF EmptyInput(km)
             THEN [km EXCEPT !.pc = "reduce",
                             !.result = [clusters |-> <<>>, centroids |-> <<>>]]
             ELSE [km EXCEPT !.pc = "seed"]
    /\ UNCHANGED pipeline

\* Math.min(k, n)
SeedCount(f) == Min(f.k, Len(f.embeddings))

\* The head of the seeding loop, and after it new Array(n).fill(0).
Seed ==
    /\ km.pc = "seed"
    /\ km' = IF Len(km.centroids) < SeedCount(km)
             THEN [km EXCEPT !.pc = "draw"]
             ELSE [km EXCEPT !.pc = "iterate", !.iter = 0,
                             !.clusters = [i \in 1..Len(km.embeddings) |-> 0]]
    /\ UNCHANGED pipeline

\* idx = Math.floor(Math.random() * n)
Draw(idx) ==
    /\ km.pc = "draw"
    /\ km' = [km EXCEPT !.pc = "while", !.idx = idx]
    /\ UNCHANGED pipeline

\* The draw of an index that is not used yet.
DrawFresh == \E idx \in (0..(Len(km.embeddings) - 1)) \ km.usedIndices : Draw(idx)

\* The draw of an index that is used already.
DrawUsed == \E idx \in km.usedIndices : Draw(idx)

\* Mutant of While: the index drawn is taken whether or not it was used.
WhileAnyIndex ==
    /\ km.pc = "while"
    /\ km' = [km EXCEPT !.pc = "seed", !.usedIndices = @ \cup {km.idx},
                        !.centroids = Append(@, Centroid0(km.embeddings[km.idx + 1]))]
    /\ UNCHANGED pipeline

\* while (usedIndices.has(idx)), then usedIndices.add and centroids.push
While ==
    /\ km.pc = "while"
    /\ km' = IF km.idx \in km.usedIndices
             THEN [km EXCEPT !.pc = "draw"]
             ELSE [km EXCEPT !.pc = "seed", !.usedIndices = @ \cup {km.idx},
                             !.centroids = Append(@, Centroid0(km.embeddings[km.idx + 1]))]
    /\ UNCHANGED pipeline

\* Mutant of IterationLeft: the loop runs until nothing changes.
IterationLeftAlways(f) == TRUE

\* iter < maxIterations
IterationLeft(f) == f.iter < f.maxIterations

\* return { clusters, centroids }
KMeansReturned(f) ==
    [f EXCEPT !.pc = "reduce",
              !.result = [clusters |-> f.clusters, centroids |-> f.centroids]]

\* The head of the iteration loop.
Iterate ==
    /\ km.pc = "iterate"
    /\ km' = IF IterationLeft(km) THEN [km EXCEPT !.pc = "pass"] ELSE KMeansReturned(km)
    /\ UNCHANGED pipeline

\* Mutant of AssignPass: the pass goes on to the update whether or not the
\* assignment changed.
AssignPassToBound ==
    /\ km.pc = "pass"
    /\ km' = [km EXCEPT !.pc = "update", !.passes = @ + 1,
                        !.clusters = [i \in 1..Len(km.embeddings) |->
                                         Nearest(km.embeddings[i], km.centroids)]]
    /\ UNCHANGED pipeline

\* The assignment pass and the convergence check.
AssignPass ==
    /\ km.pc = "pass"
    /\ LET newClusters == [i \in 1..Len(km.embeddings) |->
                              Nearest(km.embeddings[i], km.centroids)]
           changed == newClusters # km.clusters
           assigned == [km EXCEPT !.clusters = newClusters, !.passes = @ + 1] IN
       km' = IF changed THEN [assigned EXCEPT !.pc = "update"]
             ELSE KMeansReturned(assigned)
    /\ UNCHANGED pipeline

\* The sum of component c over the vectors at the places in members.
RECURSIVE ComponentSum(_, _, _)
ComponentSum(embeddings, members, c) ==
    IF members = {} THEN 0
    ELSE LET i == CHOOSE m \in members : TRUE IN
         embeddings[i][c] + ComponentSum(embeddings, members \ {i}, c)

\* Mutant of NewCentroid: the mean is taken of every cluster, empty or not.
NewCentroidOfPoints(f, ci) ==
    LET points == {i \in 1..Len(f.embeddings) : f.clusters[i] = ci} IN
    [num |-> [c \in 1..Dim(f.embeddings) |-> ComponentSum(f.embeddings, points, c)],
     den |-> Cardinality(points)]

\* The centroid of cluster ci (0-based) after the update: the mean of its
\* points, or the centroid as it was when the cluster has no point.
NewCentroid(f, ci) ==
    LET points == {i \in 1..Len(f.embeddings) : f.clusters[i] = ci} IN
    IF points = {} THEN f.centroids[ci + 1]
    ELSE [num |-> [c \in 1..Dim(f.embeddings) |-> ComponentSum(f.embeddings, points, c)],
          den |-> Cardinality(points)]

\* Update centroids, iter++
UpdateCentroids ==
    /\ km.pc = "update"
    /\ km' = [km EXCEPT !.pc = "iterate", !.iter = @ + 1,
                        !.centroids = [ci \in 1..Len(km.centroids) |-> NewCentroid(km, ci - 1)]]
    /\ UNCHANGED pipeline

\* The outcomes of (Math.random() - 0.5) * 2 that stand for the rest.
Randoms == {-1, 1}

\* The projections embedTo3D may draw for vectors of dimension dim: three
\* vectors of dim draws each.  The projections whose draws all came out the
\* same stand for the rest.
Projections(dim) == {[row \in 1..3 |-> [c \in 1..dim |-> r]] : r \in Randoms}

\* x * 50, y * 50, z * 50
SCALE == 50

\* embedTo3D over vectors num / den, once the projection is drawn; the
\* position is (x, y, z) / den.
Project(vectors, projection) ==
    [i \in 1..Len(vectors) |->
        [x |-> Dot(vectors[i].num, projection[1]) * SCALE,
         y |-> Dot(vectors[i].num, projection[2]) * SCALE,
         z |-> Dot(vectors[i].num, projection[3]) * SCALE,
         den |-> vectors[i].den]]

\* positions = embedTo3D(allEmbeddings): an empty list is returned as it is,
\* otherwise a projection is drawn.
EmbedItems ==
    /\ km.pc = "reduce"
    /\ IF km.embeddings = <<>>
       THEN km' = [km EXCEPT !.pc = "reduceCentroids", !.positions = <<>>]
       ELSE \E projection \in Projections(Dim(km.embeddings)) :
               km' = [km EXCEPT !.pc = "reduceCentroids", !.projection = projection,
                                !.positions = Project([i \in 1..Len(km.embeddings) |->
                                                         Centroid0(km.embeddings[i])],
                                                      projection)]
    /\ UNCHANGED pipeline

\* centroidPositions = embedTo3D(centroids): a second call, which draws a
\* projection of its own.
EmbedCentroids ==
    /\ km.pc = "reduceCentroids"
    /\ LET centroids == km.result.centroids IN
       IF centroids = <<>>
       THEN km' = [km EXCEPT !.pc = "end", !.centroidPositions = <<>>]
       ELSE \E projection \in Projections(Len(centroids[1].num)) :
               km' = [km EXCEPT !.pc = "end", !.centroidProjection = projection,
                                !.centroidPositions = Project(centroids, projection)]
    /\ UNCHANGED pipeline

\* A call with one of the inputs, any k >= 1 and any iteration bound; no
\* request is sent to the route.
InitCall(inputs) ==
    /\ km \in {[NoCall EXCEPT !.pc = "call", !.embeddings = e, !.k = k,
                              !.maxIterations = m] :
                  e \in inputs, k \in 1..MaxK, m \in 0..MaxIter}
    /\ requests = <<>>
    /\ Empty
    /\ Closed
    /\ faultsLeft = 0
    /\ maxPage = MaxPageLen

InitKM == InitCall(Embeddings)

NextKM ==
    \/ KMeansEntry
    \/ Seed
    \/ DrawFresh
    \/ DrawUsed
    \/ While
    \/ Iterate
    \/ AssignPass
    \/ UpdateCentroids
    \/ EmbedItems
    \/ EmbedCentroids

SpecKM == InitKM /\ [][NextKM]_vars

\* Every step of the call is taken, and the draws of Math.random are fair: an
\* index that is not used yet is drawn in the end.  The inputs are the lists
\* of vectors of dimension zero and one.
LiveKM ==
    /\ InitCall(EmbeddingsOf({0, 1}))
    /\ [][NextKM]_vars
    /\ WF_vars(NextKM)
    /\ SF_vars(DrawFresh)

\* Calls of kMeansClustering over longer lists of vectors of dimension zero and
\* one, where a pass can leave a cluster without a vector.
MaxLine == 3

Lines == UNION {[1..n -> [1..d -> Components]] : n \in 0..MaxLine, d \in {0, 1}}

InitLine == InitCall(Lines)

SpecLine == InitLine /\ [][NextKM]_vars

\* ------------------------------------------- direct calls of cosineSimilarity
Vectors == UNION {[1..d -> Components] : d \in 0..MaxDim}

\* cosineSimilarity(a, b)
CosineAB ==
    /\ km.pc = "cosine"
    /\ km' = [km EXCEPT !.pc = "cosineBack", !.ab = cosineSimilarity(km.a, km.b)]
    /\ UNCHANGED pipeline

\* cosineSimilarity(b, a)
CosineBA ==
    /\ km.pc = "cosineBack"
    /\ km' = [km EXCEPT !.pc = "cosineSelf", !.ba = cosineSimilarity(km.b, km.a)]
    /\ UNCHANGED pipeline

\* cosineSimilarity(a, a)
CosineAA ==
    /\ km.pc = "cosineSelf"
    /\ km' = [km EXCEPT !.pc = "end", !.aa = cosineSimilarity(km.a, km.a)]
    /\ UNCHANGED pipeline

\* The three calls are made for any two vectors, of one length or of two.
InitCos ==
    /\ km \in {[NoCall EXCEPT !.pc = "cosine", !.a = a, !.b = b] : a, b \in Vectors}
    /\ requests = <<>>
    /\ Empty
    /\ Closed
    /\ faultsLeft = 0
    /\ maxPage = MaxPageLen

NextCos == CosineAB \/ CosineBA \/ CosineAA

SpecCos == InitCos /\ [][NextCos]_vars

\* ------------------------------------------------------------ the page Home
\* What the steps of the user interface leave alone.
backend ==
    <<requests, responses, jobs, run, posts, topics, links, faultsLeft, hist, maxPage, km>>

\* buildGraphData(topics, posts, "topics")
TopicsGraph == [mode |-> "topics", topic |-> 0]

\* buildGraphData([topicNode], topicPosts, "all")
TopicGraph(t) == [mode |-> "topic", topic |-> t]

\* A request of the page in flight.  selected is the selectedTopicId in the
\* closure of the fetchData that sent it.
HomeRequest(h, kind, t) ==
    [id |-> h.issued + 1, kind |-> kind, selected |-> h.selectedTopicId, topic |-> t]

Sent(h, kind, t) ==
    [h EXCEPT !.pending = @ \cup {HomeRequest(h, kind, t)}, !.issued = @ + 1]

\* Mutant of Rebuilds: the graph is rebuilt by every refresh.
RebuildsAlways(r) == TRUE

\* if (initial || !selectedTopicId), with the selectedTopicId of the closure
Rebuilds(r) == r.kind = "initial" \/ r.selected = 0

\* The setInterval callback: fetchData(false).
Refresh ==
    /\ home.mounted
    /\ home.issued < MaxRequests
    /\ home' = Sent(home, "refresh", 0)
    /\ UNCHANGED <<backend, search>>

\* Both requests of fetchData came back OK: the topics and posts are set and
\* the topics-only graph is rebuilt or not.
FetchDataResolves ==
    \E r \in home.pending :
        /\ r.kind \in {"initial", "refresh"}
        /\ home' = [home EXCEPT !.pending = @ \ {r}, !.loaded = TRUE,
                                !.graphData = IF Rebuilds(r) THEN TopicsGraph ELSE @,
                                !.applied = [id |-> r.id, kind |-> r.kind,
                                             rebuilt |-> Rebuilds(r)]]
        /\ UNCHANGED <<backend, search>>

\* A request of fetchData failed: the catch sets nothing of the graph.
FetchDataFails ==
    \E r \in home.pending :
        /\ r.kind \in {"initial", "refresh"}
        /\ home' = [home EXCEPT !.pending = @ \ {r},
                                !.applied = [id |-> r.id, kind |-> r.kind, rebuilt |-> FALSE]]
        /\ UNCHANGED <<backend, search>>

\* The node of topic t is in the displayed graph.
Displayed(h, t) ==
    /\ h.loaded
    /\ \/ h.graphData.mode = "topics"
       \/ h.graphData.mode = "topic" /\ h.graphData.topic = t

\* handleNodeClick on the node of topic t: the selection is toggled; the
\* posts of the topic are requested, or the topics-only graph is set again.
NodeClicked(h, t) ==
    IF h.selectedTopicId = t
    THEN [h EXCEPT !.selectedTopicId = 0, !.graphData = TopicsGraph]
    ELSE [Sent(h, "posts", t) EXCEPT !.selectedTopicId = t]

handleNodeClick ==
    \E t \in TopicIds :
        /\ home.mounted
        /\ Displayed(home, t)
        /\ home.issued < MaxRequests
        /\ home' = NodeClicked(home, t)
        /\ UNCHANGED <<backend, search>>

\* navigateToTopic(t) from a search result or a hot topic whose node is not
\* in the displayed graph.
navigateToTopic ==
    \E t \in TopicIds :
        /\ home.mounted /\ home.loaded
        /\ ~Displayed(home, t)
        /\ home.issued < MaxRequests
        /\ home' = [Sent(home, "posts", t) EXCEPT !.selectedTopicId = t]
        /\ UNCHANGED <<backend, search>>

\* The posts of a topic came back: the graph of the topic is set.
PostsResolve ==
    \E r \in home.pending :
        /\ r.kind = "posts"
        /\ home' = [home EXCEPT !.pending = @ \ {r}, !.graphData = TopicGraph(r.topic),
                                !.applied = [id |-> r.id, kind |-> r.kind, rebuilt |-> TRUE]]
        /\ UNCHANGED <<backend, search>>

\* .catch(console.error)
PostsFail ==
    \E r \in home.pending :
        /\ r.kind = "posts"
        /\ home' = [home EXCEPT !.pending = @ \ {r},
                                !.applied = [id |-> r.id, kind |-> r.kind, rebuilt |-> FALSE]]
        /\ UNCHANGED <<backend, search>>

\* Home is mounted and the effect of the initial fetch has run: fetchData(true).
InitHome ==
    /\ home = [Sent(NoHome, "initial", 0) EXCEPT !.mounted = TRUE]
    /\ search = NoSearch
    /\ km = NoCall
    /\ requests = <<>>
    /\ Empty
    /\ faultsLeft = 0
    /\ maxPage = MaxPageLen

NextHome ==
    \/ Refresh
    \/ FetchDataResolves
    \/ FetchDataFails
    \/ handleNodeClick
    \/ navigateToTopic
    \/ PostsResolve
    \/ PostsFail

SpecHome == InitHome /\ [][NextHome]_vars

\* ------------------------------------------------------------ SearchOverlay
\* The effect of lines 181-201 after the query has become q: the cleanup of
\* the effect before it clears the timer; an empty query empties the results,
\* any other sets the debounce timer.
QueryChanged(f, q) ==
    IF q = ""
    THEN [f EXCEPT !.query = q, !.timer = "", !.results = ""]
    ELSE [f EXCEPT !.query = q, !.timer = q]

\* onChange of the input: setQuery(e.target.value)
onChange ==
    \E q \in Queries \cup {""} :
        /\ search.mounted
        /\ q # search.query
        /\ search' = QueryChanged(search, q)
        /\ UNCHANGED <<backend, home>>

\* The debounce timer fires: setIsSearching(true) and onSearch(query), with
\* the query of the render that set the timer.
TimerFires ==
    /\ search.timer # ""
    /\ search.issued < MaxRequests
    /\ search' = [search EXCEPT !.timer = "", !.isSearching = TRUE, !.issued = @ + 1,
                                !.pending = @ \cup {[id |-> search.issued + 1,
                                                     query |-> search.timer]}]
    /\ UNCHANGED <<backend, home>>

\* onSearch has resolved: setResults(searchResults), setIsSearching(false)
SearchResolves ==
    \E r \in search.pending :
        /\ search' = [search EXCEPT !.pending = @ \ {r}, !.results = r.query,
                                    !.isSearching = FALSE]
        /\ UNCHANGED <<backend, home>>

\* onSearch has thrown: setResults([]), setIsSearching(false)
SearchFails ==
    \E r \in search.pending :
        /\ search' = [search EXCEPT !.pending = @ \ {r}, !.results = "",
                                    !.isSearching = FALSE]
        /\ UNCHANGED <<backend, home>>

\* handleClear, from the button shown while a query is typed and no search
\* is marked as running.
handleClear ==
    /\ search.query # "" /\ ~search.isSearching
    /\ search' = QueryChanged([search EXCEPT !.results = ""], "")
    /\ UNCHANGED <<backend, home>>

\* handleResultClick on one of the results shown: setQuery("")
handleResultClick ==
    /\ search.results # "" /\ search.query # ""
    /\ search' = QueryChanged(search, "")
    /\ UNCHANGED <<backend, home>>

\* SearchOverlay is mounted and its effect has run for the empty query.
InitSearch ==
    /\ search = [NoSearch EXCEPT !.mounted = TRUE]
    /\ home = NoHome
    /\ km = NoCall
    /\ requests = <<>>
    /\ Empty
    /\ faultsLeft = 0
    /\ maxPage = MaxPageLen

NextSearch ==
    \/ onChange
    \/ TimerFires
    \/ SearchResolves
    \/ SearchFails
    \/ handleClear
    \/ handleResultClick

SpecSearch == InitSearch /\ [][NextSearch]_vars

\* Two runs over the same source.  A client sends a request, a request
\* without moltbookApiUrl and a second request at any time, so that the second
\* run starts while the first is at any of its steps, or after it has ended.
\* Either the first run asks for two records, the source honours the limit
\* and one call may throw; or both runs ask for one record and two calls may
\* throw; or both runs ask for one record, the source puts up to two records
\* in a page and no call throws.
TwoRuns ==
    { [first |-> 2, second |-> 1, faults |-> 1, maxPage |-> 1],
      [first |-> 1, second |-> 1, faults |-> 2, maxPage |-> 1],
      [first |-> 1, second |-> 1, faults |-> 0, maxPage |-> 2] }

InitTwo ==
    \E c \in TwoRuns :
        /\ requests = << [moltbookApiUrl |-> TRUE, limit |-> c.first],
                         [moltbookApiUrl |-> FALSE, limit |-> 0],
                         [moltbookApiUrl |-> TRUE, limit |-> c.second] >>
        /\ Empty
        /\ Closed
        /\ faultsLeft = c.faults
        /\ maxPage = c.maxPage
        /\ km = NoCall

SpecTwo == InitTwo /\ [][Next]_vars

\* ================================================================== claims
Started == 1..Len(jobs)
TerminalStatus == {"completed", "failed"}
FetchPcs == {"loop", "request", "backoff", "delay"}
Ended(j) == run[j].pc \in {"done", "rejected"}

\* Job j took a step in which one of its calls threw.
Threw(j) == run'[j] # run[j] /\ faultsLeft' # faultsLeft

C2_CompletedCountsEveryRecord ==
    \A j \in Started :
        jobs[j].status = "completed" =>
            jobs[j].processed + jobs[j].errors = jobs[j].totalItems

\* C3: when the embedding call of a batch throws, errors grows by the size of
\* the batch, processed and the clustering input stay as they are, the loop
\* goes on with the next batch and the job stays running; a job that met such
\* a failure and no exception outside the record and batch handlers ends
\* completed.
C3_EmbedFailureSkipsOneBatch ==
    /\ [][\A j \in JobIds :
            (run[j].pc = "embed" /\ Threw(j)) =>
                /\ run'[j].errors = run[j].errors + Len(batch(run[j]))
                /\ run'[j].processed = run[j].processed
                /\ run'[j].allEmbeddings = run[j].allEmbeddings
                /\ run'[j].pc = "batch"
                /\ run'[j].i = run[j].i + BATCH_SIZE
                /\ run'[j].fetched = run[j].fetched
                /\ jobs'[j].status = "running"]_vars
    /\ [](\A j \in JobIds :
            (Ended(j) /\ "embed" \in hist[j] /\ "fatal" \notin hist[j]) =>
                jobs[j].status = "completed")

C3_Witness ==
    /\ run[1].pc = "done"
    /\ hist[1] = {"embed"}
    /\ jobs[1].status = "completed"
    /\ jobs[1].errors = BATCH_SIZE
    /\ jobs[1].processed > 0

\* C4: when the upsert or the embedding store of a record throws, errors
\* grows by 1, the record is not added to the clustering input, processed is
\* unchanged, and the loop goes on with the next record of the same batch (or
\* with the progress update after the last record); nothing is aborted.
C4_RecordFailureSkipsOneRecord ==
    [][\A j \in JobIds :
        (run[j].pc \in {"upsert", "store"} /\ Threw(j)) =>
            /\ run'[j].errors = run[j].errors + 1
            /\ run'[j].processed = run[j].processed
            /\ run'[j].allEmbeddings = run[j].allEmbeddings
            /\ run'[j].allPostIds = run[j].allPostIds
            /\ run'[j].i = run[j].i
            /\ run'[j].j = run[j].j + 1
            /\ run'[j].pc = IF run'[j].j < Len(batch(run[j])) THEN "upsert" ELSE "progress"
            /\ jobs'[j].status = "running"]_vars

C4_Witness ==
    /\ run[1].pc = "upsert"
    /\ run[1].j = 1
    /\ run[1].errors = 1
    /\ run[1].processed = 0
    /\ hist[1] = {"record"}

\* C5: a job that met an exception outside the per-record and per-batch
\* handlers has, once its pipeline has ended, the persisted status failed, a
\* non-empty error log, and the counters accumulated up to the failure.
C5_FatalErrorMarksFailed ==
    \A j \in JobIds :
        (Ended(j) /\ "fatal" \in hist[j]) =>
            /\ jobs[j].status = "failed"
            /\ jobs[j].errorLog # ""
            /\ jobs[j].processed = run[j].processed
            /\ jobs[j].errors = run[j].errors

\* C6: between two batches the persisted counters add up to the number of
\* records of the batches finished so far.
C6_ProgressVisibleBetweenBatches ==
    \A j \in JobIds :
        run[j].pc = "batch" =>
            jobs[j].processed + jobs[j].errors = Min(run[j].i, Len(run[j].fetched))

\* C7: every job started by POST eventually reaches status completed or
\* failed.
C7_EveryJobReachesTerminalStatus ==
    \A j \in JobIds :
        (run[j].pc # "idle") ~> (j \in Started /\ jobs[j].status \in TerminalStatus)

\* C8: fetchAllPosts never raises: every step taken inside it stays inside it
\* or returns to ingestDataFast, and when a page request has failed for good
\* the call returns exactly the records collected before that page.
C8_FetchNeverRaises ==
    [][\A j \in JobIds :
        /\ run[j].pc \in FetchPcs => run'[j].pc \in FetchPcs \cup {"total"}
        /\ (run[j].pc = "request" /\ "page" \in hist'[j]) =>
               /\ run'[j].pc = "total"
               /\ run'[j].fetched = run[j].allPosts]_vars

C8_Witness ==
    /\ run[1].pc = "total"
    /\ "page" \in hist[1]
    /\ Len(run[1].fetched) = MOLTBOOK_PAGE_SIZE

\* C9: fetchAllPosts asks for a bounded number of pages: the loop is left when
\* the total is reached or the offset exceeds the ceiling, an empty page and a
\* page of already-collected identifiers end the call, and every page after
\* which the loop goes on has added a record and increased the offset.
C9_PaginationTerminates ==
    /\ [][\A j \in JobIds :
            /\ (run[j].pc = "loop" /\ run'[j] # run[j]
                  /\ (Len(run[j].allPosts) >= effectiveLimit(run[j])
                        \/ run[j].offset > MAX_OFFSET)) => run'[j].pc = "total"
            /\ (run[j].pc = "request" /\ run'[j].pc = "delay") =>
                  /\ Len(run'[j].allPosts) > Len(run[j].allPosts)
                  /\ run'[j].offset > run[j].offset
            /\ \A page \in Pages :
                  (run[j].pc = "request" /\ run'[j] = AcceptPage(Got(run[j], "ok"), page)
                     /\ Range(page) \subseteq Range(run[j].allPosts)) =>
                        run'[j].pc = "total"]_vars
    /\ [](\A j \in JobIds :
            /\ run[j].pageRequests <= Min(Max(effectiveLimit(run[j]), 0), MAX_OFFSET + 1)
            /\ run[j].attempt <= MAX_RETRIES)

C9_Witness ==
    /\ run[1].pc = "request"
    /\ run[1].pageRequests = MAX_OFFSET + 1
    /\ run[1].attempt = MAX_RETRIES

NoDuplicates(s) == \A a, b \in 1..Len(s) : a # b => s[a] # s[b]

\* C10 (as claimed): the list returned by fetchAllPosts never contains two
\* records with the same identifier.
C10_NoDuplicateIdentifiers ==
    \A j \in JobIds : NoDuplicates(run[j].fetched)

\* C10 (amended): the list collected by fetchAllPosts never contains the same
\* identifier from two different pages; only records of one and the same page
\* can share an identifier.
C10_NoDuplicateAcrossPages ==
    \A j \in JobIds :
        \A a, b \in 1..Len(run[j].allPosts) :
            (a # b /\ run[j].allPosts[a] = run[j].allPosts[b]) =>
                run[j].pageOf[a] = run[j].pageOf[b]

C10_Witness ==
    /\ run[1].pc = "delay"
    /\ run[1].pageRequests = 2
    /\ run[1].offset > Len(run[1].allPosts)
    /\ ~NoDuplicates(run[1].allPosts)

\* C11: every page request carries an offset of at most MAX_OFFSET and a
\* limit between 1 and the page size, whatever total was requested and however
\* many records the source put in the pages before.
C11_RequestWithinOffsetAndPageSize ==
    \A j \in JobIds :
        run[j].pc \in {"request", "backoff"} =>
            /\ run[j].url.offset = run[j].offset
            /\ run[j].url.offset <= MAX_OFFSET
            /\ run[j].url.limit >= 1
            /\ run[j].url.limit <= MOLTBOOK_PAGE_SIZE

\* A page is requested at the offset ceiling with a full page as limit.
C11_Witness ==
    \E j \in JobIds :
        /\ run[j].pc = "request"
        /\ run[j].url = [limit |-> MOLTBOOK_PAGE_SIZE, offset |-> MAX_OFFSET]

\* C12: fetchAllPosts never returns more records than
\* min(requested total, MAX_OFFSET + page size), however many records the
\* source places in a page.
C12_ReturnsAtMostRequested ==
    \A j \in JobIds : Len(run[j].fetched) <= effectiveLimit(run[j])

\* C13: fetchWithRetry sends at most MAX_RETRIES requests for a page; an
\* attempt before the last that got a 5xx response or threw is followed by the
\* backoff and one more attempt for the same page, and an attempt that got an
\* OK page ends the retries.
C13_RetriesBounded ==
    [][\A j \in JobIds :
        /\ (run[j].pc = "request" /\ run'[j] # run[j]) =>
            /\ run[j].attempt \in 1..MAX_RETRIES
            /\ (run'[j].response \in {"5xx", "thrown"} /\ run[j].attempt < MAX_RETRIES) =>
                    /\ run'[j].pc = "backoff"
                    /\ run'[j].attempt = run[j].attempt
            /\ run'[j].response = "ok" => run'[j].pc \in {"delay", "total"}
        /\ (run[j].pc = "backoff" /\ run'[j] # run[j]) =>
            /\ run'[j].pc = "request"
            /\ run'[j].attempt = run[j].attempt + 1
            /\ run'[j].pageRequests = run[j].pageRequests
            /\ run'[j].url = run[j].url]_vars

\* The last attempt for a page is made after a 5xx response.
C13_Witness ==
    \E j \in JobIds :
        /\ run[j].pc = "request"
        /\ run[j].attempt = MAX_RETRIES
        /\ run[j].response = "5xx"

\* C14: within one fetchAllPosts call the delay is taken between two
\* consecutive page requests: an accepted page is followed by the delay, the
\* loop condition is evaluated again only after the delay, and a page is
\* requested only from the loop condition.
C14_DelayBetweenPages ==
    [][\A j \in JobIds :
        /\ (run[j].pc = "request" /\ Len(run'[j].allPosts) > Len(run[j].allPosts)) =>
                run'[j].pc = "delay"
        /\ (run'[j].pc = "loop" /\ run[j].pc # "loop") => run[j].pc \in {"idle", "delay"}
        /\ run'[j].pageRequests > run[j].pageRequests =>
                /\ run[j].pc = "loop"
                /\ run'[j].pageRequests = run[j].pageRequests + 1]_vars

\* A second page is requested.
C14_Witness ==
    \E j \in JobIds : run[j].pc = "request" /\ run[j].pageRequests = 2

\* The number of places of s that hold x.
Occurrences(s, x) == Cardinality({k \in 1..Len(s) : s[k] = x})

\* Job j takes the step of a successful upsert.
Upserts(j) == run[j].pc = "upsert" /\ run'[j].pc = "store"

\* C15: also when two jobs ingest the same source at the same time, no two
\* Post rows have the same external identifier; a successful upsert creates a
\* row only when the identifier has none, writes the content served to its run
\* over the content of the row that exists, and leaves every other row as it
\* is; no other step creates a row or changes an identifier or a content.
C15_OnePostPerExternalId ==
    /\ [](\A a, b \in 1..Len(posts) : posts[a].externalId = posts[b].externalId => a = b)
    /\ [][\A j \in JobIds :
            Upserts(j) =>
                LET e == post(run[j])
                    id == run'[j].savedPost IN
                /\ Len(posts') = Len(posts) + (IF Existing(posts, e) = {} THEN 1 ELSE 0)
                /\ id \in 1..Len(posts')
                /\ posts'[id].externalId = e
                /\ posts'[id].content = j
                /\ \A other \in 1..Len(posts) : other # id => posts'[other] = posts[other]]_vars
    /\ [][(\A j \in JobIds : ~Upserts(j)) =>
            /\ Len(posts') = Len(posts)
            /\ \A id \in 1..Len(posts) :
                  /\ posts'[id].externalId = posts[id].externalId
                  /\ posts'[id].content = posts[id].content]_vars

\* The second job has overwritten the content of a Post the first job has
\* saved, while the first job is still running.
C15_Witness ==
    \E id \in 1..Len(posts) :
        /\ posts[id].content = 2
        /\ id \in Range(run[1].allPostIds)
        /\ run[1].pc \in {"upsert", "store", "progress", "batch", "embed"}

\* C16 (as stated): a run changes no Topic and no link of another run, and
\* once the second run is completed every post of the first run that it has
\* processed again has exactly one link to a topic of the second run.
C16_OneMoreLinkPerPost ==
    /\ [][/\ SubSeq(links', 1, Len(links)) = links
          /\ SubSeq(topics', 1, Len(topics)) =
                [t \in 1..Len(topics) |->
                    IF run[topics[t].job].pc = "centroid" /\ run[topics[t].job].topicId = t
                    THEN [topics[t] EXCEPT !.centroid = topics'[t].centroid]
                    ELSE topics[t]]]_vars
    /\ []((run[2].pc = "done" /\ jobs[2].status = "completed") =>
                \A id \in Range(run[1].allPostIds) \cap Range(run[2].allPostIds) :
                    Cardinality({l \in 1..Len(links) :
                        links[l].postId = id /\ topics[links[l].topicId].job = 2}) = 1)

\* C16: a run changes no Topic and no link of another run, and once a run is
\* completed every post it processed has as many links to topics of that run
\* as the run has processed records of the post: one when the source listed
\* the post once.
C16_RunOnlyAddsTopicsAndLinks ==
    /\ [][/\ SubSeq(links', 1, Len(links)) = links
          /\ SubSeq(topics', 1, Len(topics)) =
                [t \in 1..Len(topics) |->
                    IF run[topics[t].job].pc = "centroid" /\ run[topics[t].job].topicId = t
                    THEN [topics[t] EXCEPT !.centroid = topics'[t].centroid]
                    ELSE topics[t]]]_vars
    /\ [](\A j \in Started :
            (run[j].pc = "done" /\ jobs[j].status = "completed") =>
                \A id \in Range(run[j].allPostIds) :
                    Cardinality({l \in 1..Len(links) :
                        links[l].postId = id /\ topics[links[l].topicId].job = j})
                      = Occurrences(run[j].allPostIds, id))

\* Both runs are completed and a post of the first run has been processed
\* again by the second, which has linked it to a topic of its own.
C16_Witness ==
    /\ Len(jobs) = 2
    /\ \A j \in JobIds : run[j].pc = "done" /\ jobs[j].status = "completed"
    /\ \E id \in Range(run[1].allPostIds) \cap Range(run[2].allPostIds) :
          \E a, b \in 1..Len(links) :
              /\ links[a].postId = id /\ topics[links[a].topicId].job = 1
              /\ links[b].postId = id /\ topics[links[b].topicId].job = 2

\* kMeansClustering has returned.
KMeansDone == km.pc \in {"reduce", "reduceCentroids", "end"}

\* C17: the positions of the posts and the positions of the centroids of one
\* run are computed with the same three projection vectors.
C17_SharedProjectionBasis ==
    (km.pc = "end" /\ km.result.centroids # <<>>) =>
        km.projection = km.centroidProjection

\* C18: kMeansClustering returns for every input, every k >= 1 and every
\* iteration bound: the seeding loop chooses distinct indices and ends when
\* min(k, n) are chosen, and at most maxIterations assignment passes are made.
C18_KMeansTerminates ==
    /\ [](km.passes <= km.maxIterations /\ km.iter <= km.maxIterations)
    /\ [](/\ Cardinality(km.usedIndices) = Len(km.centroids)
          /\ Len(km.centroids) <= SeedCount(km))
    /\ [](km.pc \in {"iterate", "pass", "update"} => Len(km.centroids) = SeedCount(km))
    /\ (km.pc = "call") ~> KMeansDone

\* The call has returned after maxIterations passes, more than one, with
\* fewer vectors than k.
C18_Witness ==
    /\ km.pc = "reduce"
    /\ km.passes = km.maxIterations
    /\ km.passes > 1
    /\ km.k > Len(km.embeddings)
    /\ Len(km.result.centroids) = Len(km.embeddings)

\* C19 (as stated): for every non-empty list of n vectors of one dimension
\* and every k >= 1 the assignment returned has length n, every value c in it
\* is 0 <= c < min(k, n), and min(k, n) centroids are returned.
C19_ResultShape ==
    (KMeansDone /\ km.embeddings # <<>>) =>
        /\ Len(km.result.clusters) = Len(km.embeddings)
        /\ \A i \in 1..Len(km.result.clusters) :
              km.result.clusters[i] \in 0..(SeedCount(km) - 1)
        /\ Len(km.result.centroids) = SeedCount(km)

\* C19: the same for every non-empty list of vectors of a dimension of at
\* least 1.
C19_ResultShapeOfVectors ==
    (KMeansDone /\ km.embeddings # <<>> /\ Dim(km.embeddings) >= 1) =>
        /\ Len(km.result.clusters) = Len(km.embeddings)
        /\ \A i \in 1..Len(km.result.clusters) :
              km.result.clusters[i] \in 0..(SeedCount(km) - 1)
        /\ Len(km.result.centroids) = SeedCount(km)

\* A call with k above n has returned an assignment that uses the last of
\* its n clusters.
C19_Witness ==
    /\ KMeansDone
    /\ km.k > Len(km.embeddings)
    /\ Len(km.embeddings) > 1
    /\ \E i \in 1..Len(km.result.clusters) :
          km.result.clusters[i] = Len(km.embeddings) - 1

\* C20: kMeansClustering on an empty list, or on vectors of dimension zero,
\* returns no cluster and no centroid, and embedTo3D on an empty list returns
\* an empty list.
C20_EmptyInputReturnsEmpty ==
    /\ (KMeansDone /\ (km.embeddings = <<>> \/ Dim(km.embeddings) = 0)) =>
            km.result = [clusters |-> <<>>, centroids |-> <<>>]
    /\ (km.pc \in {"reduceCentroids", "end"} /\ km.embeddings = <<>>) =>
            km.positions = <<>>
    /\ (km.pc = "end" /\ km.result.centroids = <<>>) => km.centroidPositions = <<>>

\* Both functions have returned for vectors of dimension zero.
C20_Witness ==
    /\ km.pc = "end"
    /\ km.embeddings # <<>>
    /\ Dim(km.embeddings) = 0
    /\ km.result.centroids = <<>>
    /\ km.centroidPositions = <<>>

\* x == y for two values of cosineSimilarity: NaN equals nothing, and two
\* numbers are equal when they are equal as reals and rounded alike.
SameNumber(x, y) ==
    /\ ~IsNaN(x) /\ ~IsNaN(y)
    /\ ~SimLess(x, y) /\ ~SimLess(y, x)
    /\ (x.dot = 0 \/ Rounding(x) = Rounding(y))

\* The value is the number 1.
IsOne(sim) ==
    /\ ~IsNaN(sim)
    /\ sim.dot > 0
    /\ sim.dot * sim.dot = sim.normA * sim.normB
    /\ Rounding(sim) = 0

\* The value is a number of [-1, 1]: below 1 in absolute value as a real, or
\* 1 as a real with a divisor that was not rounded down.
InUnitRange(sim) ==
    /\ ~IsNaN(sim)
    /\ \/ sim.dot * sim.dot < sim.normA * sim.normB
       \/ sim.dot * sim.dot = sim.normA * sim.normB /\ Rounding(sim) >= 0

NonZero(v) == \E c \in 1..Len(v) : v[c] # 0

\* C21: cosineSimilarity(a, b) == cosineSimilarity(b, a) for all vectors a
\* and b, and cosineSimilarity(a, a) == 1 for every non-zero vector a.
C21_CosineSymmetric ==
    km.pc = "end" /\ km.aa # <<>> =>
        /\ SameNumber(km.ab, km.ba)
        /\ NonZero(km.a) => IsOne(km.aa)

\* C22: cosineSimilarity returns a number of [-1, 1] for every two vectors:
\* 0 when the lengths differ, and a defined value for equal lengths, all-zero
\* and empty vectors included.
C22_CosineInUnitRange ==
    km.pc \in {"cosineBack", "cosineSelf"} =>
        /\ InUnitRange(km.ab)
        /\ Len(km.a) # Len(km.b) => km.ab.dot = 0

\* The links that point to topic t.
LinksTo(t) == {l \in 1..Len(links) : links[l].topicId = t}

\* C23: once the job of the run that created a Topic is completed or failed,
\* the postCount of the Topic is the number of links that point to it.
C23_PostCountEqualsLinks ==
    \A t \in 1..Len(topics) :
        jobs[topics[t].job].status \in TerminalStatus =>
            topics[t].postCount = Cardinality(LinksTo(t))

\* The topics created by the run of job j, and the links to them.
TopicsOf(j) == {t \in 1..Len(topics) : topics[t].job = j}
LinksOf(j) == {l \in 1..Len(links) : topics[links[l].topicId].job = j}

\* C24: when a run is completed, the links to its topics are one per record
\* it processed (a post has as many as the run processed records of it), all
\* with relevance 1; every topic of the run counts its links and has at least
\* one, and the links are as many as the processed count.
C24_OneLinkPerProcessedRecord ==
    \A j \in Started :
        (run[j].pc = "done" /\ jobs[j].status = "completed") =>
            /\ \A id \in 1..Len(posts) :
                  Cardinality({l \in LinksOf(j) : links[l].postId = id})
                    = Occurrences(run[j].allPostIds, id)
            /\ \A l \in LinksOf(j) : links[l].relevance = 1
            /\ \A t \in TopicsOf(j) :
                  /\ topics[t].postCount = Cardinality(LinksTo(t))
                  /\ topics[t].postCount >= 1
            /\ Cardinality(LinksOf(j)) = jobs[j].processed
            /\ jobs[j].processed = Len(run[j].allPostIds)

\* A run is completed with two topics and more records processed than
\* topics.
C24_Witness ==
    \E j \in Started :
        /\ run[j].pc = "done" /\ jobs[j].status = "completed"
        /\ Cardinality(TopicsOf(j)) = 2
        /\ jobs[j].processed > 2

\* C25: when the labeling provider answers with content that is not JSON or
\* has no name, generateClusterLabel returns the name "Uncategorized" and the
\* run goes on to create the topic with that name; a run that met malformed
\* answers and no exception outside the record and batch handlers ends
\* completed.
C25_MalformedLabelFallsBack ==
    /\ [][\A j \in JobIds :
            /\ (run[j].pc = "label" /\ run'[j].pc = "createTopic" /\ Threw(j)) =>
                    /\ run'[j].label.name = "Uncategorized"
                    /\ run'[j].label.description \in {"", "About"}
            /\ (run[j].pc = "createTopic" /\ run'[j].pc = "centroid") =>
                    /\ Len(topics') = Len(topics) + 1
                    /\ topics'[Len(topics')].name = run[j].label.name
                    /\ topics'[Len(topics')].description = run[j].label.description]_vars
    /\ [](\A j \in Started :
            (run[j].pc = "done" /\ "label" \in hist[j] /\ hist[j] \cap {"fatal", "final"} = {}) =>
                /\ jobs[j].status = "completed"
                /\ \E t \in TopicsOf(j) : topics[t].name = "Uncategorized")
    /\ [](\A t \in 1..Len(topics) : topics[t].name \in {"Topic", "Uncategorized"})

\* A completed run has a topic named by the fallback and a topic named by
\* the provider.
C25_Witness ==
    \E j \in Started :
        /\ run[j].pc = "done" /\ jobs[j].status = "completed"
        /\ \E t, u \in TopicsOf(j) :
              /\ topics[t].name = "Uncategorized" /\ topics[t].description = ""
              /\ topics[u].name = "Topic"

\* The rows of the jobs are written by their own runs only: a step that
\* changes the row of job j is a step of run j, a request adds a row with the
\* next id and leaves the others as they are, and the counters of a job never
\* exceed the number of records its own fetch returned.
JobsIsolated ==
    /\ [][/\ Len(jobs') >= Len(jobs)
          /\ \A j \in Started :
                /\ jobs'[j] # jobs[j] => run'[j] # run[j]
                /\ run'[j] # run[j] => \A i \in Started \ {j} : run'[i] = run[i]]_vars
    /\ [](\A j \in Started : jobs[j].processed <= Len(run[j].fetched))

\* C26: a request made while a job runs creates a second job whose run is
\* interleaved with the first; each job's row is written by its own run only,
\* and at completion processed + errors equals the job's own total.
C26_TwoJobsCountTheirOwn ==
    /\ JobsIsolated
    /\ [](\A j \in Started :
            jobs[j].status = "completed" =>
                jobs[j].processed + jobs[j].errors = jobs[j].totalItems)

\* Job j is past the update of its total (lines 467-470), made or thrown.
PastTotal(j) == run[j].pc \notin {"idle", "total"} \cup FetchPcs

\* C27 as stated: once fetching has finished, the persisted totalItems is the
\* number of records fetched, and it does not change again.
C27_TotalIsFetchedCount ==
    /\ [](\A j \in Started : PastTotal(j) => jobs[j].totalItems = Len(run[j].fetched))
    /\ [][\A j \in Started : PastTotal(j) => jobs'[j].totalItems = jobs[j].totalItems]_vars

\* C27, amended: once the update of the total has succeeded, totalItems is the
\* number of records fetched; when that update throws, the run goes to its
\* catch and totalItems stays the requested limit. In both cases totalItems
\* does not change again.
C27_TotalIsFetchedCountOnceUpdated ==
    /\ [](\A j \in Started :
            PastTotal(j) =>
                jobs[j].totalItems = IF run[j].error = "total" THEN run[j].limit
                                     ELSE Len(run[j].fetched))
    /\ [](\A j \in Started :
            (run[j].pc = "done" /\ run[j].error = "total") => jobs[j].status \in {"failed", "running"})
    /\ [][\A j \in Started : PastTotal(j) => jobs'[j].totalItems = jobs[j].totalItems]_vars

\* A finished job whose fetch returned fewer records than requested.
C27_Witness ==
    \E j \in Started :
        /\ run[j].pc = "done" /\ jobs[j].status = "completed"
        /\ Len(run[j].fetched) < run[j].limit
        /\ jobs[j].totalItems = Len(run[j].fetched)

\* Run j has ended outside its catch without having collected an embedding.
EndedWithoutEmbeddings(j) ==
    run[j].pc = "done" /\ run[j].error = "" /\ run[j].allEmbeddings = <<>>

\* A run that collected no embedding has written no topic, no link and no
\* position, and its job is completed with no record processed.
NothingClustered(j) ==
    /\ TopicsOf(j) = {} /\ LinksOf(j) = {}
    /\ \A p \in 1..Len(posts) : posts[p].positioned # j
    /\ jobs[j].status = "completed" /\ jobs[j].processed = 0

\* C28: a run that collects no embeddings creates no topic, no link and no
\* post position, and its job ends completed with processed = 0 and errors
\* equal to the number of fetched records.
C28_NoEmbeddingsNoTopics ==
    \A j \in Started :
        EndedWithoutEmbeddings(j) =>
            NothingClustered(j) /\ jobs[j].errors = Len(run[j].fetched)

\* The places of the input assigned to cluster ci (0-based) in the result.
Assigned(ci) == {i \in 1..Len(km.result.clusters) : km.result.clusters[i] = ci}

\* Centroid num / den is the coordinate-wise mean of the vectors at members.
IsMean(centroid, members) ==
    \A c \in 1..Len(centroid.num) :
        centroid.num[c] * Cardinality(members) =
            ComponentSum(km.embeddings, members, c) * centroid.den

\* C29: when kMeansClustering returns, every centroid with a vector assigned
\* to it in the returned assignment is the coordinate-wise mean of exactly
\* those vectors.
C29_CentroidsAreMeans ==
    (KMeansDone /\ km.embeddings # <<>> /\ Dim(km.embeddings) >= 1) =>
        \A ci \in 0..(Len(km.result.centroids) - 1) :
            Assigned(ci) # {} => IsMean(km.result.centroids[ci + 1], Assigned(ci))

\* The places of the input assigned to cluster ci (0-based) by the last pass.
PassMembers(ci) == {i \in 1..Len(km.clusters) : km.clusters[i] = ci}

\* The call is in its iteration loop or has returned from it.
Seeded == km.pc \in {"iterate", "pass", "update"} \/ KMeansDone

\* C30: in every update pass a centroid with no vector assigned keeps its
\* value; through all iterations the number of centroids is min(k, n) and
\* every centroid has the dimension of the input and a non-zero divisor.
C30_EmptyClusterKeepsCentroid ==
    /\ [][km.pc = "update" =>
            /\ km'.pc = "iterate"
            /\ Len(km'.centroids) = Len(km.centroids)
            /\ \A ci \in 0..(Len(km.centroids) - 1) :
                  PassMembers(ci) = {} => km'.centroids[ci + 1] = km.centroids[ci + 1]]_vars
    /\ []((Seeded /\ km.embeddings # <<>> /\ Dim(km.embeddings) >= 1) =>
            /\ Len(km.centroids) = SeedCount(km)
            /\ \A ci \in 1..Len(km.centroids) :
                  /\ Len(km.centroids[ci].num) = Dim(km.embeddings)
                  /\ km.centroids[ci].den >= 1)

\* An update pass has run in which a cluster had no vector.
C30_Witness ==
    /\ km.pc = "iterate" /\ km.iter >= 1
    /\ \E ci \in 0..(Len(km.centroids) - 1) :
          PassMembers(ci) = {} /\ km.centroids[ci + 1].den = 1

\* The call went through its loop: the input has vectors of dimension >= 1.
Looped == KMeansDone /\ km.embeddings # <<>> /\ Dim(km.embeddings) >= 1

\* C31: kMeansClustering stops at the first pass whose assignment equals the
\* assignment before it (all zeros before the first pass) and returns that
\* assignment; when no pass leaves the assignment as it was, it makes exactly
\* maxIterations passes.
C31_StopsAtFixedPointOrBound ==
    /\ [][km.pc = "pass" =>
            /\ km'.passes = km.passes + 1
            /\ km'.clusters = km.clusters =>
                  km'.pc = "reduce" /\ km'.result.clusters = km.clusters
            /\ km'.clusters # km.clusters => km'.pc = "update"]_vars
    /\ [][km.pc = "iterate" =>
            /\ km.iter < km.maxIterations => km'.pc = "pass"
            /\ km.iter >= km.maxIterations =>
                  km'.pc = "reduce" /\ km'.result.clusters = km.clusters]_vars
    /\ [](Looped =>
            /\ km.result.clusters = km.clusters
            /\ \/ km.passes = km.iter + 1 /\ km.passes <= km.maxIterations
               \/ km.passes = km.iter /\ km.passes = km.maxIterations)

\* The call returned at its second pass, which left the assignment of the
\* first pass as it was, before the iteration bound.
C31_Witness ==
    Looped /\ km.passes = 2 /\ km.iter = 1 /\ km.maxIterations = 2

\* The centroids (0-based) whose distance to emb is a number.
Comparable(emb, centroids) ==
    {i \in 0..(Len(centroids) - 1) : ~IsNaN(cosineSimilarity(emb, centroids[i + 1].num))}

\* The centroids at minimum cosine distance to emb, i.e. at maximum similarity.
AtMinimum(emb, centroids) ==
    {i \in Comparable(emb, centroids) :
        \A o \in Comparable(emb, centroids) :
            ~SimLess(cosineSimilarity(emb, centroids[i + 1].num),
                     cosineSimilarity(emb, centroids[o + 1].num))}

\* The lowest-indexed centroid at minimum distance; centroid 0 when no distance
\* is a number.
LowestAtMinimum(emb, centroids) ==
    IF AtMinimum(emb, centroids) = {} THEN 0
    ELSE CHOOSE i \in AtMinimum(emb, centroids) :
             \A o \in AtMinimum(emb, centroids) : i <= o

\* C32: an assignment pass assigns each vector to the lowest-indexed centroid
\* among those at minimum cosine distance.
C32_TiesGoToFirstCentroid ==
    [][km.pc = "pass" =>
          \A i \in 1..Len(km.embeddings) :
              km'.clusters[i] = LowestAtMinimum(km.embeddings[i], km.centroids)]_vars

\* A pass has assigned a vector for which two centroids were at minimum
\* distance, the second of them not being centroid 0.
C32_Witness ==
    /\ km.pc = "update"
    /\ \E i \in 1..Len(km.embeddings) :
          /\ Cardinality(AtMinimum(km.embeddings[i], km.centroids)) >= 2
          /\ km.clusters[i] >= 1

\* The centroids are copies of the input vectors at pairwise distinct indices,
\* the indices in usedIndices.
SeedsOfDistinctIndices ==
    /\ Cardinality(km.usedIndices) = Len(km.centroids)
    /\ km.usedIndices \subseteq 0..(Len(km.embeddings) - 1)
    /\ \E at \in [1..Len(km.centroids) -> km.usedIndices] :
          /\ \A i, o \in 1..Len(km.centroids) : at[i] = at[o] => i = o
          /\ \A i \in 1..Len(km.centroids) :
                km.centroids[i] = Centroid0(km.embeddings[at[i] + 1])

\* Every centroid pushed is the vector at an index that was not used before.
SeedsPushedOnce ==
    [][(km.pc = "while" /\ km'.centroids # km.centroids) =>
          /\ km.idx \notin km.usedIndices
          /\ km'.usedIndices = km.usedIndices \cup {km.idx}
          /\ km'.centroids = Append(km.centroids, Centroid0(km.embeddings[km.idx + 1]))]_vars

\* C33 as stated: whatever the input, the call seeds min(k, n) centroids,
\* copies of the input vectors at pairwise distinct indices.
C33_SeedsAtDistinctIndices ==
    /\ SeedsPushedOnce
    /\ []((km.pc \in {"seed", "draw", "while"} \/ (km.pc = "iterate" /\ km.iter = 0)) =>
            SeedsOfDistinctIndices)
    /\ [](Seeded => Cardinality(km.usedIndices) = SeedCount(km))

\* C33, amended: for an input whose vectors have a dimension of at least one
\* the call seeds min(k, n) centroids, copies of the input vectors at pairwise
\* distinct indices; for an empty input and for vectors of dimension zero it
\* returns before seeding and creates no centroid.
C33_SeedsAtDistinctIndicesOfVectors ==
    /\ SeedsPushedOnce
    /\ []((km.pc \in {"seed", "draw", "while"} \/ (km.pc = "iterate" /\ km.iter = 0)) =>
            SeedsOfDistinctIndices)
    /\ [](Seeded =>
            Cardinality(km.usedIndices) =
                IF Dim(km.embeddings) >= 1 THEN SeedCount(km) ELSE 0)

\* Seeding is over for a call with more clusters asked than vectors given,
\* and distinct vectors.
C33_Witness ==
    /\ km.pc = "iterate" /\ km.iter = 0
    /\ km.k > Len(km.embeddings)
    /\ Len(km.centroids) = 2
    /\ km.centroids[1] # km.centroids[2]

\* The least c with c * POSTS_PER_CLUSTER >= n, i.e. Math.ceil(n / 20).
CeilPerCluster(n) ==
    CHOOSE c \in 0..n : (c - 1) * POSTS_PER_CLUSTER < n /\ n <= c * POSTS_PER_CLUSTER

\* Run j is past its call of kMeansClustering.
Clustered(j) ==
    run[j].pc \in {"position", "sample", "label", "createTopic", "centroid", "link"}
    \/ (run[j].pc \in {"complete", "done", "catch"} /\ run[j].groups # <<>>)

\* C34: for n >= 1 collected embeddings the requested cluster count is
\* min(max(ceil(n / POSTS_PER_CLUSTER), MIN_CLUSTERS), MAX_CLUSTERS), hence
\* between MIN_CLUSTERS and MAX_CLUSTERS, and the run creates at most
\* min(that count, n) topics.
C34_ClusterCountClamped ==
    /\ \A n \in 1..MaxCount :
          /\ numClusters(n) \in MIN_CLUSTERS..MAX_CLUSTERS
          /\ numClusters(n) = IF CeilPerCluster(n) <= MIN_CLUSTERS THEN MIN_CLUSTERS
                              ELSE IF CeilPerCluster(n) >= MAX_CLUSTERS THEN MAX_CLUSTERS
                              ELSE CeilPerCluster(n)
    /\ \A j \in Started :
          LET n == Len(run[j].allEmbeddings) IN
          /\ Cardinality(TopicsOf(j)) <= Min(numClusters(n), n)
          /\ Clustered(j) =>
                /\ n >= 1
                /\ Len(run[j].groups) <= Min(numClusters(n), n)
                /\ \A i \in 1..n : run[j].clusters[i] \in 0..(Min(numClusters(n), n) - 1)

\* A completed job with as many topics as the count allows for its two or
\* more embeddings.
C34_Witness ==
    \E j \in Started :
        /\ run[j].pc = "done" /\ jobs[j].status = "completed"
        /\ Len(run[j].allEmbeddings) >= 2
        /\ Cardinality(TopicsOf(j)) = Min(numClusters(Len(run[j].allEmbeddings)),
                                          Len(run[j].allEmbeddings))

\* C35: a non-OK response with a status below 500 is not retried: the attempt
\* that got it is the last one for the page, fetchAllPosts stops there and
\* returns the records collected so far, and nothing is raised.
C35_ClientErrorStopsPagination ==
    /\ [][\A j \in JobIds :
            (run[j].pc = "request" /\ run'[j] # run[j] /\ run'[j].response = "4xx") =>
                /\ run'[j].pc = "total"
                /\ run'[j].fetched = run[j].allPosts
                /\ run'[j].error = ""
                /\ jobs' = jobs]_vars
    /\ [](\A j \in JobIds :
            run[j].response = "4xx" => run[j].pc \notin {"request", "backoff", "delay", "loop"})
    /\ [](\A j \in Started :
            (run[j].pc = "done" /\ run[j].response = "4xx" /\ hist[j] \subseteq {"page"}) =>
                jobs[j].status = "completed")

\* The second page request of a run got a 4xx response at its first attempt
\* and the run went on with the records of the first page.
C35_Witness ==
    \E j \in Started :
        /\ run[j].pc = "done" /\ jobs[j].status = "completed"
        /\ run[j].response = "4xx"
        /\ run[j].fetched # <<>>
        /\ jobs[j].processed = Len(run[j].fetched)

\* C36: a POST without moltbookApiUrl is answered with an error and touches
\* nothing: no job row is created and no run is started.
C36_PostWithoutUrlRejected ==
    /\ [][(requests # <<>> /\ requests' # requests /\ ~Head(requests).moltbookApiUrl) =>
            /\ responses' = Append(responses, Rejection)
            /\ jobs' = jobs /\ run' = run
            /\ posts' = posts /\ topics' = topics /\ links' = links]_vars
    /\ [](Cardinality({r \in 1..Len(responses) : responses[r].status = 200}) = Len(jobs))
    /\ [](\A j \in JobIds : run[j].pc # "idle" => j \in Started)

\* The request without moltbookApiUrl has been rejected while a job ran.
C36_Witness ==
    /\ Len(responses) = 2
    /\ responses[2] = Rejection
    /\ Len(jobs) = 1
    /\ run[1].pc \notin {"idle", "done"}
    /\ run[2].pc = "idle"

\* C37: the persisted processed and errors of a job never decrease, and once
\* totalItems holds the number of records fetched, the persisted processed
\* never exceeds it.
C37_CountersMonotone ==
    /\ [][\A j \in Started :
            /\ jobs'[j].processed >= jobs[j].processed
            /\ jobs'[j].errors >= jobs[j].errors]_vars
    /\ [](\A j \in Started :
            (PastTotal(j) /\ run[j].error # "total") =>
                /\ jobs[j].totalItems = Len(run[j].fetched)
                /\ jobs[j].processed <= jobs[j].totalItems)
    /\ [](\A j \in Started : jobs[j].processed >= 0 /\ jobs[j].errors >= 0)

\* A failed job whose counters were persisted by a batch before the run threw.
C37_Witness ==
    \E j \in Started :
        /\ run[j].pc = "done" /\ jobs[j].status = "failed"
        /\ jobs[j].processed >= 1 /\ jobs[j].errors >= 1
        /\ jobs[j].totalItems = Len(run[j].fetched)

\* The response of a periodic refresh was handled in this step and the
\* topics-only graph was rebuilt from it.
RefreshRebuilt ==
    /\ home'.applied.id # home.applied.id
    /\ home'.applied.kind = "refresh"
    /\ home'.applied.rebuilt

\* C38: the periodic refresh never replaces the displayed graph while a topic
\* is selected: when the result of a refresh is applied and the graph is
\* rebuilt, no topic is selected at that time.
C38_RefreshKeepsSelectedTopicGraph ==
    [][RefreshRebuilt => home.selectedTopicId = 0]_vars

\* No search is in flight and no debounce timer is set.
SearchSettled == search.pending = {} /\ search.timer = ""

\* The response to a search for a query other than the current one was
\* handled in this step.
StaleResponse ==
    \E r \in search.pending :
        /\ search'.pending = search.pending \ {r}
        /\ r.query # search.query

\* C39: once every search has settled the overlay shows the results of the
\* query typed last, and a response for an earlier query that arrives after
\* the query changed or was cleared does not overwrite the results.
C39_ResultsOfCurrentQuery ==
    /\ []((SearchSettled /\ search.results # "") => search.results = search.query)
    /\ [][StaleResponse => search'.results = search.results]_vars

\* C40: throughout a run the collected embeddings and the collected post ids
\* are parallel lists (the embedding at a place is the one of the post at
\* that place), a pair is collected only in the step that stores the
\* embedding of the post, and every post the run positions or links is one of
\* the collected.
C40_EmbeddingsAndPostIdsParallel ==
    /\ [](\A j \in Started :
            /\ Len(run[j].allEmbeddings) = Len(run[j].allPostIds)
            /\ \A i \in 1..Len(run[j].allPostIds) :
                  /\ run[j].allPostIds[i] \in 1..Len(posts)
                  /\ posts[run[j].allPostIds[i]].externalId = run[j].allEmbeddings[i]
                  /\ posts[run[j].allPostIds[i]].embedded
            /\ \A p \in 1..Len(posts) :
                  posts[p].positioned = j => p \in Range(run[j].allPostIds)
            /\ \A l \in LinksOf(j) : links[l].postId \in Range(run[j].allPostIds))
    /\ [][\A j \in Started :
            (run'[j].allPostIds # run[j].allPostIds
                \/ run'[j].allEmbeddings # run[j].allEmbeddings) =>
                /\ run[j].pc = "store"
                /\ run'[j].allPostIds = Append(run[j].allPostIds, run[j].savedPost)
                /\ run'[j].allEmbeddings = Append(run[j].allEmbeddings, post(run[j]))
                /\ posts' = [posts EXCEPT ![run[j].savedPost].embedded = TRUE]]_vars

\* A completed run that skipped a record has positioned and linked the posts
\* it collected.
C40_Witness ==
    \E j \in Started :
        /\ run[j].pc = "done" /\ jobs[j].status = "completed"
        /\ Len(run[j].allPostIds) >= 1
        /\ Len(run[j].allPostIds) < Len(run[j].fetched)
        /\ LinksOf(j) # {}
        /\ \E p \in 1..Len(posts) : posts[p].positioned = j

====
